---- MODULE Spec2Model ----
(***************************************************************************)
(* The subset-C grammar of src/tests/c.py as the parsing machine that the  *)
(* pyparsing combinators build from it: a scannerless, backtracking        *)
(* recursive descent over the characters of the input, with the packrat    *)
(* cache that c.py line 87 switches on.  Offsets are 0-based as in Python: *)
(* character number loc of the buffer s is s[loc + 1].                     *)
(***************************************************************************)
EXTENDS Integers, Sequences, FiniteSets, TLC

\* threads, cache and trace are the parsing machine; doc is a text in the
\* functions of text/parsing, web a WebsiteManager or WebsiteFetcher at work
VARIABLES threads, cache, trace, doc, web

vars == <<threads, cache, trace, doc, web>>

\* no text is being processed, no page is being fetched
NoDoc == [pc |-> "none"]
NoWeb == [pc |-> "none"]

(***************************************************************************)
(* Characters                                                              *)
(***************************************************************************)
Lower == {"a","b","c","d","e","f","g","h","i","j","k","l","m",
          "n","o","p","q","r","s","t","u","v","w","x","y","z"}
Upper == {"A","B","C","D","E","F","G","H","I","J","K","L","M",
          "N","O","P","Q","R","S","T","U","V","W","X","Y","Z"}
Digits == {"0","1","2","3","4","5","6","7","8","9"}
HexDigits == Digits \cup {"a","b","c","d","e","f","A","B","C","D","E","F"}
alphas == Lower \cup Upper
alphanums == alphas \cup Digits
\* pp.Word(pp.alphas + "_", pp.alphanums + "_")
NameInitChars == alphas \cup {"_"}
NameBodyChars == alphanums \cup {"_"}
\* Keyword.DEFAULT_KEYWORD_CHARS
KeywordChars == alphanums \cup {"_", "$"}
\* ParserElement.DEFAULT_WHITE_CHARS
WhiteChars == {" ", "\n", "\t", "\r"}

\* instring[loc], "" past the end of the buffer (where Python raises IndexError)
At(s, loc) == IF loc >= 0 /\ loc < Len(s) THEN s[loc + 1] ELSE ""

\* instring[a:b] as one token
RECURSIVE Slice(_, _, _)
Slice(s, a, b) == IF a >= b THEN "" ELSE s[a + 1] \o Slice(s, a + 1, b)

\* the first offset >= loc whose character is not in set
RECURSIVE ScanWhile(_, _, _)
ScanWhile(s, loc, set) ==
    IF loc < Len(s) /\ s[loc + 1] \in set THEN ScanWhile(s, loc + 1, set) ELSE loc

StartsWith(s, loc, lit) ==
    /\ loc + Len(lit) <= Len(s)
    /\ \A i \in 1..Len(lit) : s[loc + i] = lit[i]

TabSize == 8

\* str.expandtabs(): a tab becomes the spaces up to the next multiple of 8
\* columns, the column starting again after a line break
RECURSIVE ExpandFrom(_, _, _)
ExpandFrom(s, i, col) ==
    IF i > Len(s) THEN <<>>
    ELSE IF s[i] = "\t"
         THEN [j \in 1..(TabSize - (col % TabSize)) |-> " "]
              \o ExpandFrom(s, i + 1, 0)
         ELSE <<s[i]>>
              \o ExpandFrom(s, i + 1, IF s[i] \in {"\n", "\r"} THEN 0 ELSE col + 1)

ExpandTabs(s) == ExpandFrom(s, 1, 0)

(***************************************************************************)
(* The regular expressions of the grammar.  Each gives the offset after    *)
(* the match that starts at loc, or -1 when there is none.                 *)
(***************************************************************************)
\* the integer without a sign: \d+
ReInteger_Unsigned(s, loc) ==
    LET q == ScanWhile(s, loc, Digits)
    IN IF q > loc THEN q ELSE -1

\* integer = pp.Regex(r"[+-]?\d+")
ReInteger(s, loc) ==
    LET p == IF At(s, loc) \in {"+", "-"} THEN loc + 1 ELSE loc
        q == ScanWhile(s, p, Digits)
    IN IF q > p THEN q ELSE -1

\* char = pp.Regex(r"'.'"): the dot matches anything but a newline
ReChar(s, loc) ==
    IF /\ At(s, loc) = "'"
       /\ loc + 2 < Len(s)
       /\ At(s, loc + 1) # "\n"
       /\ At(s, loc + 2) = "'"
    THEN loc + 3 ELSE -1

\* the body of pp.dbl_quoted_string: any of  [^"\n\r\\]  |  ""  |  \\. ,
\* repeated greedily
RECURSIVE StrBody(_, _)
StrBody(s, p) ==
    LET c == At(s, p)
    IN IF c = "" THEN p
       ELSE IF c \notin {"\"", "\n", "\r", "\\"} THEN StrBody(s, p + 1)
       ELSE IF c = "\"" /\ At(s, p + 1) = "\"" THEN StrBody(s, p + 2)
       ELSE IF c = "\\" /\ At(s, p + 1) \notin {"", "x"} THEN StrBody(s, p + 2)
       ELSE IF c = "\\" /\ At(s, p + 1) = "x"
                       /\ ScanWhile(s, p + 2, HexDigits) > p + 2
            THEN StrBody(s, ScanWhile(s, p + 2, HexDigits))
       ELSE p

\* the regular expression of pp.dbl_quoted_string: the opening quote and the
\* body; the closing quote is a literal of its own after it
ReString(s, loc) == IF At(s, loc) # "\"" THEN -1 ELSE StrBody(s, loc + 1)

\* (?:[^*]|\*(?!/))* : up to the first "*/", or to the end of the buffer
RECURSIVE CommentBody(_, _)
CommentBody(s, p) ==
    IF p >= Len(s) THEN p
    ELSE IF s[p + 1] = "*" /\ At(s, p + 1) = "/" THEN p
    ELSE CommentBody(s, p + 1)

\* the regular expression of pp.c_style_comment: "/*" and the body; the
\* closing "*/" is a literal of its own after it
ReComment(s, loc) ==
    IF ~StartsWith(s, loc, <<"/", "*">>) THEN -1 ELSE CommentBody(s, loc + 2)

\* pp.one_of("! - *")
ReUnop(s, loc) == IF At(s, loc) \in {"!", "-", "*"} THEN loc + 1 ELSE -1

\* pp.one_of("++ --")
ReIncDec(s, loc) ==
    IF StartsWith(s, loc, <<"+", "+">>) \/ StartsWith(s, loc, <<"-", "-">>)
    THEN loc + 2 ELSE -1

\* pp.one_of("* / %")
ReMulop(s, loc) == IF At(s, loc) \in {"*", "/", "%"} THEN loc + 1 ELSE -1

\* pp.one_of("+ -")
ReAddop(s, loc) == IF At(s, loc) \in {"+", "-"} THEN loc + 1 ELSE -1

\* pp.one_of("< == > <= >= !="): one_of puts "<=" before "<" and ">=" before
\* ">", so that the longer operator is tried first
ReRelop(s, loc) ==
    IF StartsWith(s, loc, <<"<", "=">>) THEN loc + 2
    ELSE IF At(s, loc) = "<" THEN loc + 1
    ELSE IF StartsWith(s, loc, <<"=", "=">>) THEN loc + 2
    ELSE IF StartsWith(s, loc, <<">", "=">>) THEN loc + 2
    ELSE IF At(s, loc) = ">" THEN loc + 1
    ELSE IF StartsWith(s, loc, <<"!", "=">>) THEN loc + 2
    ELSE -1

\* pp.Regex(r"(?<!=)=(?!=)"): an "=" with no "=" before or after it
ReAssign(s, loc) ==
    IF At(s, loc) = "=" /\ At(s, loc - 1) # "=" /\ At(s, loc + 1) # "="
    THEN loc + 1 ELSE -1

ReMatch(re, s, loc) ==
    CASE re = "integer" -> ReInteger(s, loc)
      [] re = "char"    -> ReChar(s, loc)
      [] re = "string"  -> ReString(s, loc)
      [] re = "comment" -> ReComment(s, loc)
      [] re = "unop"    -> ReUnop(s, loc)
      [] re = "incdec"  -> ReIncDec(s, loc)
      [] re = "mulop"   -> ReMulop(s, loc)
      [] re = "addop"   -> ReAddop(s, loc)
      [] re = "relop"   -> ReRelop(s, loc)
      [] re = "assign"  -> ReAssign(s, loc)

(***************************************************************************)
(* Parser elements.  Every object that c.py builds is one element with its *)
(* own identity id (the packrat cache is keyed by the object); exprs are   *)
(* the elements it contains.  A Forward holds no expression of its own     *)
(* here: ForwardExpr below gives what was assigned to it.                  *)
(***************************************************************************)
\* the classes that take callPreparse from the expression they wrap
EnhanceKinds == {"ZeroOrMore", "OneOrMore", "Opt", "Group", "Suppress",
                 "FollowedBy", "DelimitedList"}

Elem(kind, id, exprs, match, re) ==
    [kind |-> kind, id |-> id, exprs |-> exprs, match |-> match, re |-> re,
     ign |-> TRUE, ws |-> TRUE,
     callPreparse |-> CASE kind = "MatchFirst" -> FALSE
                        [] kind \in EnhanceKinds -> exprs[1].callPreparse
                        [] OTHER -> TRUE]

Literal(id, match)   == Elem("Literal", id, <<>>, match, "")
Keyword(id, match)   == Elem("Keyword", id, <<>>, match, "")
Regex(id, re)        == Elem("Regex", id, <<>>, <<>>, re)
And(id, exprs)       == Elem("And", id, exprs, <<>>, "")
MatchFirst(id, exprs) == Elem("MatchFirst", id, exprs, <<>>, "")
ZeroOrMore(id, e)    == Elem("ZeroOrMore", id, <<e>>, <<>>, "")
\* an expression once where infix_notation repeats it
OneOrMore_Once(id, e) == Elem("And", id, <<e>>, <<>>, "")
OneOrMore(id, e)     == Elem("OneOrMore", id, <<e>>, <<>>, "")
Optional(id, e)      == Elem("Opt", id, <<e>>, <<>>, "")
Group(id, e)         == Elem("Group", id, <<e>>, <<>>, "")
Forward(id)          == Elem("Forward", id, <<>>, <<>>, "")
FollowedBy(id, e)    == Elem("FollowedBy", id, <<e>>, <<>>, "")
\* pp.Suppress(c) of a one-character string: a Suppress around a Literal
Suppress(id, c)      == Elem("Suppress", id, <<Literal(id \o ".lit", <<c>>)>>, <<>>, "")
\* the "-" operator of And: no backtracking past this point
ErrorStop            == Elem("ErrorStop", "-", <<>>, <<>>, "")
\* an element inside pp.Combine: leave_whitespace(), and no ignore reaches it
Adjacent(e)          == [e EXCEPT !.ign = FALSE, !.ws = FALSE]
Combine(id, e)       == Elem("Combine", id, <<e>>, <<>>, "")
\* pp.DelimitedList(e): e + ("," + e)[...], the commas suppressed
DelimitedList(id, e) ==
    Elem("DelimitedList", id,
         <<And(id \o ".seq",
               <<e, ZeroOrMore(id \o ".more",
                               And(id \o ".item", <<Suppress(id \o ".delim", ",")>> \o <<e>>))>>)>>,
         <<>>, "")

(***************************************************************************)
(* The grammar, src/tests/c.py lines 89-150                                *)
(***************************************************************************)
LPAR   == Suppress("LPAR", "(")
RPAR   == Suppress("RPAR", ")")
LBRACK == Suppress("LBRACK", "[")
RBRACK == Suppress("RBRACK", "]")
LBRACE == Suppress("LBRACE", "{")
RBRACE == Suppress("RBRACE", "}")
SEMI   == Suppress("SEMI", ";")
COMMA  == Suppress("COMMA", ",")

INT    == Keyword("INT", <<"i","n","t">>)
CHAR   == Keyword("CHAR", <<"c","h","a","r">>)
WHILE  == Keyword("WHILE", <<"w","h","i","l","e">>)
DO     == Keyword("DO", <<"d","o">>)
IF_    == Keyword("IF", <<"i","f">>)
ELSE_  == Keyword("ELSE", <<"e","l","s","e">>)
RETURN == Keyword("RETURN", <<"r","e","t","u","r","n">>)

\* the name that is no reserved word: a keyword where a name is expected is
\* an error with no way back
NAME_Reserved ==
    MatchFirst("NAME.alt",
               <<And("NAME.reserved",
                     <<MatchFirst("NAME.keyword", <<INT, CHAR, WHILE, DO, IF_, ELSE_, RETURN>>),
                       ErrorStop, Literal("NAME.never", <<"\n">>)>>),
                 Elem("Word", "NAME", <<>>, <<>>, "")>>)

NAME    == Elem("Word", "NAME", <<>>, <<>>, "")
integer == Regex("integer", "integer")
char    == Regex("char", "char")
\* pp.dbl_quoted_string
string_ ==
    Combine("string_",
            Adjacent(And("string_.seq",
                         <<Adjacent(Regex("string_.body", "string")),
                           Adjacent(Literal("string_.quote", <<"\"">>))>>)))

TYPE == Group("TYPE", And("TYPE.seq", <<MatchFirst("TYPE.base", <<INT, CHAR>>),
                                         ZeroOrMore("TYPE.stars", Literal("TYPE.star", <<"*">>))>>))

expr == Forward("expr")

func_call ==
    Group("func_call",
          And("func_call.seq",
              <<NAME, LPAR,
                Group("func_call.args",
                      Optional("func_call.opt", DelimitedList("func_call.list", expr))),
                RPAR>>))

\* the operands without the function call
operand_NoCall == <<NAME, integer, char, string_>>

\* operand = func_call | NAME | integer | char | string_
operand == <<func_call, NAME, integer, char, string_>>

\* The operator levels given to pp.infix_notation, tightest first: the
\* operator's regular expression, its arity, and its associativity.
\* the table with the postfix operators at the first level
OpList_PostfixFirst ==
    << [re |-> "incdec", arity |-> 1, assoc |-> "LEFT"],
       [re |-> "unop",   arity |-> 1, assoc |-> "RIGHT"],
       [re |-> "incdec", arity |-> 1, assoc |-> "RIGHT"],
       [re |-> "mulop",  arity |-> 2, assoc |-> "LEFT"],
       [re |-> "addop",  arity |-> 2, assoc |-> "LEFT"],
       [re |-> "relop",  arity |-> 2, assoc |-> "LEFT"],
       [re |-> "assign", arity |-> 2, assoc |-> "LEFT"] >>

\* the table with prefix "++ --" at the first level and "! - *" at the second
OpList_IncFirst ==
    << [re |-> "incdec", arity |-> 1, assoc |-> "RIGHT"],
       [re |-> "unop",   arity |-> 1, assoc |-> "RIGHT"],
       [re |-> "incdec", arity |-> 1, assoc |-> "LEFT"],
       [re |-> "mulop",  arity |-> 2, assoc |-> "LEFT"],
       [re |-> "addop",  arity |-> 2, assoc |-> "LEFT"],
       [re |-> "relop",  arity |-> 2, assoc |-> "LEFT"],
       [re |-> "assign", arity |-> 2, assoc |-> "LEFT"] >>

\* the table with opAssoc.LEFT at the first level
OpList_UnaryLeft ==
    << [re |-> "unop",   arity |-> 1, assoc |-> "LEFT"],
       [re |-> "incdec", arity |-> 1, assoc |-> "RIGHT"],
       [re |-> "incdec", arity |-> 1, assoc |-> "LEFT"],
       [re |-> "mulop",  arity |-> 2, assoc |-> "LEFT"],
       [re |-> "addop",  arity |-> 2, assoc |-> "LEFT"],
       [re |-> "relop",  arity |-> 2, assoc |-> "LEFT"],
       [re |-> "assign", arity |-> 2, assoc |-> "LEFT"] >>

\* the table with the levels of "* / %" and "+ -" in each other's place
OpList_Swapped ==
    << [re |-> "unop",   arity |-> 1, assoc |-> "RIGHT"],
       [re |-> "incdec", arity |-> 1, assoc |-> "RIGHT"],
       [re |-> "incdec", arity |-> 1, assoc |-> "LEFT"],
       [re |-> "addop",  arity |-> 2, assoc |-> "LEFT"],
       [re |-> "mulop",  arity |-> 2, assoc |-> "LEFT"],
       [re |-> "relop",  arity |-> 2, assoc |-> "LEFT"],
       [re |-> "assign", arity |-> 2, assoc |-> "LEFT"] >>

OpList ==
    << [re |-> "unop",   arity |-> 1, assoc |-> "RIGHT"],
       [re |-> "incdec", arity |-> 1, assoc |-> "RIGHT"],
       [re |-> "incdec", arity |-> 1, assoc |-> "LEFT"],
       [re |-> "mulop",  arity |-> 2, assoc |-> "LEFT"],
       [re |-> "addop",  arity |-> 2, assoc |-> "LEFT"],
       [re |-> "relop",  arity |-> 2, assoc |-> "LEFT"],
       [re |-> "assign", arity |-> 2, assoc |-> "LEFT"] >>

NumLevels == 7

LevelName == <<"1", "2", "3", "4", "5", "6", "7">>

\* pp.infix_notation: the Forward of level n (thisExpr), and the Forward of
\* the whole operator expression (ret)
Term(n) == Forward("term" \o LevelName[n])
ret     == Forward("ret")
OpExpr(n) == Regex("op" \o LevelName[n], OpList[n].re)

\* the parentheses around an expression with its suffix
ParenExpr_Suffixed ==
    And("paren", <<Suppress("paren.lpar", "("), expr, Suppress("paren.rpar", ")")>>)

\* lpar + ret + rpar: the default Suppress("(") and Suppress(")") of
\* infix_notation, objects of their own
ParenExpr == And("paren", <<Suppress("paren.lpar", "("), ret, Suppress("paren.rpar", ")")>>)

\* lastExpr of level n: below level 1 it is  base_expr | (lpar + ret + rpar),
\* which streamlining merges into level 1's alternatives
LastExprs(n) == IF n = 1 THEN operand \o <<ParenExpr>> ELSE <<Term(n - 1)>>
LastExpr(n)  == IF n = 1 THEN MatchFirst("lastExpr0", LastExprs(1)) ELSE Term(n - 1)

\* matchExpr of level n
MatchExpr(n) ==
    LET id   == "term" \o LevelName[n]
        op   == OpExpr(n)
        last == LastExpr(n)
        this == Term(n)
    IN  IF OpList[n].assoc = "RIGHT"
        THEN \* arity 1:  _FB(opExpr.expr + thisExpr) + Group(Opt(opExpr) + thisExpr)
             And(id \o ".match",
                 <<FollowedBy(id \o ".fb", And(id \o ".fbseq", <<op, this>>)),
                   Group(id \o ".grp",
                         And(id \o ".seq", <<Optional(id \o ".opt", op), this>>))>>)
        ELSE IF OpList[n].arity = 1
        THEN \* _FB(lastExpr + opExpr) + Group(lastExpr + opExpr[1, ...])
             And(id \o ".match",
                 <<FollowedBy(id \o ".fb", And(id \o ".fbseq", <<last, op>>)),
                   Group(id \o ".grp",
                         And(id \o ".seq", <<last, OneOrMore(id \o ".more", op)>>))>>)
        ELSE \* _FB(lastExpr + opExpr + lastExpr)
             \*     + Group(lastExpr + (opExpr + lastExpr)[1, ...])
             And(id \o ".match",
                 <<FollowedBy(id \o ".fb", And(id \o ".fbseq", <<last, op, last>>)),
                   Group(id \o ".grp",
                         And(id \o ".seq",
                             <<last, OneOrMore(id \o ".more",
                                               And(id \o ".item", <<op, last>>))>>))>>)

\* thisExpr <<= (matchExpr | lastExpr)
TermExpr(n) == MatchFirst("term" \o LevelName[n] \o ".alt", <<MatchExpr(n)>> \o LastExprs(n))

\* expr <<= infix_notation(operand, [...]) + Optional(LBRACK + expr + RBRACK | LPAR + Group(...) + RPAR)
\* the expression that takes any number of suffixes
exprExpr_Chained ==
    And("expr.seq",
        <<ret,
          ZeroOrMore("expr.suffix",
                   MatchFirst("expr.suffix.alt",
                              <<And("expr.index", <<LBRACK, expr, RBRACK>>),
                                And("expr.call",
                                    <<LPAR,
                                      Group("expr.call.args",
                                            Optional("expr.call.opt",
                                                     DelimitedList("expr.call.list", expr))),
                                      RPAR>>)>>))>>)

exprExpr ==
    And("expr.seq",
        <<ret,
          Optional("expr.suffix",
                   MatchFirst("expr.suffix.alt",
                              <<And("expr.index", <<LBRACK, expr, RBRACK>>),
                                And("expr.call",
                                    <<LPAR,
                                      Group("expr.call.args",
                                            Optional("expr.call.opt",
                                                     DelimitedList("expr.call.list", expr))),
                                      RPAR>>)>>))>>)

stmt == Forward("stmt")

\* the if statement with "+" where c.py has "-"
ifstmt_Plus ==
    And("ifstmt", <<IF_, LPAR, expr, RPAR, stmt,
                    Optional("ifstmt.else", And("ifstmt.else.seq", <<ELSE_, stmt>>))>>)

\* the if statement that takes no else
ifstmt_NoElse == And("ifstmt", <<IF_, ErrorStop, LPAR, expr, RPAR, stmt>>)

ifstmt == And("ifstmt", <<IF_, ErrorStop, LPAR, expr, RPAR, stmt,
                          Optional("ifstmt.else", And("ifstmt.else.seq", <<ELSE_, stmt>>))>>)
whilestmt == And("whilestmt", <<WHILE, ErrorStop, LPAR, expr, RPAR, stmt>>)
dowhilestmt == And("dowhilestmt", <<DO, ErrorStop, stmt, WHILE, LPAR, expr, RPAR, SEMI>>)
returnstmt == And("returnstmt", <<RETURN, ErrorStop, expr, SEMI>>)

\* the statement with the expression statement tried before "return"
stmtExpr_ExprFirst ==
    Group("stmt.grp",
          MatchFirst("stmt.alt",
                     <<ifstmt, whilestmt, dowhilestmt,
                       And("exprstmt", <<expr, SEMI>>), returnstmt,
                       And("block", <<LBRACE, ZeroOrMore("block.stmts", stmt), RBRACE>>),
                       SEMI>>))

stmtExpr ==
    Group("stmt.grp",
          MatchFirst("stmt.alt",
                     <<ifstmt, whilestmt, dowhilestmt, returnstmt,
                       And("exprstmt", <<expr, SEMI>>),
                       And("block", <<LBRACE, ZeroOrMore("block.stmts", stmt), RBRACE>>),
                       SEMI>>))

\* the variable declaration that may be left out
vardecl_OrNothing ==
    Optional("vardecl",
             And("vardecl.all",
                 <<Group("vardecl.grp",
                         And("vardecl.seq",
                             <<TYPE, NAME,
                               Optional("vardecl.size",
                                        And("vardecl.size.seq", <<LBRACK, integer, RBRACK>>))>>)),
                   SEMI>>))

vardecl ==
    And("vardecl",
        <<Group("vardecl.grp",
                And("vardecl.seq",
                    <<TYPE, NAME,
                      Optional("vardecl.size",
                               And("vardecl.size.seq", <<LBRACK, integer, RBRACK>>))>>)),
          SEMI>>)

\* the argument that has no type
arg_NoType == Group("arg", And("arg.seq", <<NAME>>))

arg  == Group("arg", And("arg.seq", <<TYPE, NAME>>))
body == And("body", <<ZeroOrMore("body.vardecls", vardecl), ZeroOrMore("body.stmts", stmt)>>)
fundecl ==
    Group("fundecl",
          And("fundecl.seq",
              <<TYPE, NAME, LPAR,
                Optional("fundecl.args", Group("fundecl.args.grp", DelimitedList("fundecl.list", arg))),
                RPAR, LBRACE, Group("body.grp", body), RBRACE>>))
decl    == MatchFirst("decl", <<fundecl, vardecl>>)
program == ZeroOrMore("program", decl)

\* the expression a Forward was assigned
ForwardExpr(id) ==
    CASE id = "expr"  -> exprExpr
      [] id = "stmt"  -> stmtExpr
      [] id = "ret"   -> Term(NumLevels)
      [] id = "term1" -> TermExpr(1)
      [] id = "term2" -> TermExpr(2)
      [] id = "term3" -> TermExpr(3)
      [] id = "term4" -> TermExpr(4)
      [] id = "term5" -> TermExpr(5)
      [] id = "term6" -> TermExpr(6)
      [] id = "term7" -> TermExpr(7)

\* program.ignore(pp.c_style_comment): every element reached from program
\* skips comments before it matches; the comment itself skips none
c_style_comment ==
    [Combine("c_style_comment",
             Adjacent(And("c_style_comment.seq",
                          <<Adjacent(Regex("c_style_comment.body", "comment")),
                            Adjacent(Literal("c_style_comment.end", <<"*", "/">>))>>)))
     EXCEPT !.ign = FALSE]

Comment == [Elem("Suppress", "ignore", <<c_style_comment>>, <<>>, "") EXCEPT !.ign = FALSE]

\* the elements that parse_string makes are new ones in every call: call is
\* the thread and the number of its call
SeName(call) == "se" \o ToString(call[1]) \o "." \o ToString(call[2])

\* parse_string without the StringEnd() that parseAll=True asks for
StringEndSeq_NoEnd(call) ==
    [And(SeName(call), <<[Elem("Empty", SeName(call) \o ".empty", <<>>, <<>>, "")
                             EXCEPT !.ign = FALSE]>>)
     EXCEPT !.ign = FALSE]

\* se = Empty() + StringEnd() of parse_string(parseAll=True)
StringEndSeq(call) ==
    [And(SeName(call),
         <<[Elem("Empty", SeName(call) \o ".empty", <<>>, <<>>, "") EXCEPT !.ign = FALSE],
           [Elem("StringEnd", SeName(call) \o ".end", <<>>, <<>>, "") EXCEPT !.ign = FALSE]>>)
     EXCEPT !.ign = FALSE]

\* the rules a caller can hand an input to
Rule(name) ==
    CASE name = "program" -> program
      [] name = "stmt"    -> stmt
      [] name = "expr"    -> expr

(***************************************************************************)
(* Parse results.  A token list is a sequence of nodes: Tok(s) is the      *)
(* matched text s, Grp(c) the nested list that pp.Group makes of c.  The   *)
(* outcome of an attempt is Ok (the offset reached and the tokens) or Exc  *)
(* (a ParseException at an offset; fatal for a ParseSyntaxException).      *)
(***************************************************************************)
Tok(s) == [g |-> FALSE, v |-> s, c |-> <<>>]
Grp(c) == [g |-> TRUE, v |-> "", c |-> c]

Ok(loc, toks)   == [k |-> "ok", loc |-> loc, toks |-> toks, fatal |-> FALSE]
Exc(loc, fatal) == [k |-> "exc", loc |-> loc, toks |-> <<>>, fatal |-> fatal]
NoRet           == [k |-> "none", loc |-> 0, toks |-> <<>>, fatal |-> FALSE]

\* preParse's whitespace loop
SkipWhitespace(s, loc) == ScanWhile(s, loc, WhiteChars)

\* parseImpl of the elements that match characters, at the offset loc that
\* preParse reached
TokenImpl(e, s, loc) ==
    CASE e.kind = "Literal" ->
           IF StartsWith(s, loc, e.match)
           THEN Ok(loc + Len(e.match), <<Tok(Slice(s, loc, loc + Len(e.match)))>>)
           ELSE Exc(IF loc >= Len(s) THEN Len(s) ELSE loc, FALSE)
      [] e.kind = "Keyword" ->
           IF loc >= Len(s) THEN Exc(Len(s), FALSE)
           ELSE IF ~StartsWith(s, loc, e.match) THEN Exc(loc, FALSE)
           ELSE IF ~(loc = 0 \/ At(s, loc - 1) \notin KeywordChars)
                THEN Exc(loc - 1, FALSE)
           ELSE IF ~(\/ loc >= Len(s) - Len(e.match)
                     \/ At(s, loc + Len(e.match)) \notin KeywordChars)
                THEN Exc(loc + Len(e.match), FALSE)
           ELSE Ok(loc + Len(e.match), <<Tok(Slice(s, loc, loc + Len(e.match)))>>)
      [] e.kind = "Word" ->
           IF loc >= Len(s) THEN Exc(Len(s), FALSE)
           ELSE IF At(s, loc) \notin NameInitChars THEN Exc(loc, FALSE)
           ELSE LET end == ScanWhile(s, loc + 1, NameBodyChars)
                IN Ok(end, <<Tok(Slice(s, loc, end))>>)
      [] e.kind = "Regex" ->
           LET end == ReMatch(e.re, s, loc)
           IN IF end >= 0 THEN Ok(end, <<Tok(Slice(s, loc, end))>>) ELSE Exc(loc, FALSE)
      [] e.kind = "StringEnd" ->
           IF loc < Len(s) THEN Exc(loc, FALSE)
           ELSE IF loc = Len(s) THEN Ok(loc + 1, <<>>)
           ELSE Ok(loc, <<>>)
      [] e.kind = "Empty" -> Ok(loc, <<>>)

TokenKinds == {"Literal", "Keyword", "Word", "Regex", "StringEnd", "Empty"}

(***************************************************************************)
(* The packrat cache: pp.ParserElement.enablePackrat() with its default    *)
(* cache_size_limit, a dictionary that holds the last 128 keys set.  An    *)
(* item holds the outcome val; by, the parse_string call that set it, is   *)
(* kept for the record only and decides nothing.                           *)
(***************************************************************************)
PackratCacheSize == 128

\* the dictionary as the sequence of its items, in the order they were set
EmptyCache == [on |-> TRUE, items |-> <<>>]

\* a key without the text
CacheKey_NoText(e, s, loc, pre, act) == <<e.id, loc, pre, act, <<>>>>

\* a key without the offset
CacheKey_NoLoc(e, s, loc, pre, act) == <<e.id, 0, pre, act, s>>

\* lookup = (self, instring, loc, callPreParse, doActions)
CacheKey(e, s, loc, pre, act) == <<e.id, loc, pre, act, s>>

\* a cache that is never found to hold a key
InCache_Never(c, key) == FALSE

\* cache.get(lookup) is a value, and the value
InCache(c, key) == c.on /\ \E i \in DOMAIN c.items : c.items[i].key = key
CacheGet(c, key) == c.items[CHOOSE i \in DOMAIN c.items : c.items[i].key = key]

\* cache.set(lookup, value): the key set PackratCacheSize sets ago leaves
CacheSet(c, key, val, by) ==
    LET item == [key |-> key, val |-> val, by |-> by]
    IN  IF Len(c.items) >= PackratCacheSize
        THEN [c EXCEPT !.items = Append(Tail(c.items), item)]
        ELSE [c EXCEPT !.items = Append(c.items, item)]

\* ParserElement.reset_cache()
CacheClear(c) == [c EXCEPT !.items = <<>>]

(***************************************************************************)
(* The machine.  A thread's stack holds the Python calls in progress:      *)
(* parse_string, under it _parse of an element ("parse") and               *)
(* _skipIgnorables ("skip").  ret is what the call that just ended gave    *)
(* its caller.  M is a thread, the cache, and ev, the cache events of the  *)
(* step.                                                                   *)
(***************************************************************************)
Frame(fn, e, loc, pre, act, ph) ==
    [fn |-> fn, e |-> e, loc0 |-> loc, pre |-> pre, act |-> act, ph |-> ph,
     loc |-> loc, i |-> 0, toks |-> <<>>, flag |-> FALSE, exc |-> NoRet]

Top(M) == M.th.stack[Len(M.th.stack)]
SetTop(M, f) == [M EXCEPT !.th.stack[Len(M.th.stack)] = f, !.th.ret = NoRet]
Pop(M, out) == [M EXCEPT !.th.stack = SubSeq(@, 1, Len(@) - 1), !.th.ret = out]

\* the parse_string call a thread is in: its number and its input
Caller(th) == [id |-> th.call, text |-> th.cur.text]

\* what the step did with the cache: "body" (a miss, _parseNoCache entered),
\* "hit" (an outcome read; by is the call that stored it), "set"; depth is
\* the depth in the stack of the call of e that the event is about
Event(what, e, loc, pre, act, val, by, depth) ==
    [what |-> what, id |-> e.id, kind |-> e.kind, loc |-> loc, pre |-> pre, act |-> act,
     val |-> val, by |-> by, depth |-> depth]

\* e._parse(instring, loc, doActions, callPreParse) under _parseCache: a
\* hit gives the stored outcome back, a miss enters _parseNoCache
Call(M, e, loc, pre, act) ==
    LET key == CacheKey(e, M.th.instring, loc, pre, act)
    IN IF InCache(M.cache, key)
       THEN [M EXCEPT !.th.ret = CacheGet(M.cache, key).val,
                      !.ev = Append(@, Event("hit", e, loc, pre, act, CacheGet(M.cache, key).val,
                                             CacheGet(M.cache, key).by, Len(M.th.stack) + 1))]
       ELSE [M EXCEPT !.th.stack = Append(@, Frame("parse", e, loc, pre, act,
                                                   IF pre /\ e.callPreparse THEN "pre" ELSE "impl")),
                      !.th.ret = NoRet,
                      !.ev = Append(@, Event("body", e, loc, pre, act, NoRet, Caller(M.th),
                                             Len(M.th.stack) + 1))]

\* the end of _parseNoCache: the outcome is stored (a copy of the exception,
\* or the offset and the tokens) and handed to the caller
Return(M, out) ==
    LET f   == Top(M)
        key == CacheKey(f.e, M.th.instring, f.loc0, f.pre, f.act)
        M1  == IF M.cache.on
               THEN [M EXCEPT !.cache = CacheSet(@, key, out, Caller(M.th)),
                              !.ev = Append(@, Event("set", f.e, f.loc0, f.pre, f.act, out,
                                                     Caller(M.th), Len(M.th.stack)))]
               ELSE M
    IN Pop(M1, out)

\* self._skipIgnorables(instring, loc), called from e's preParse
CallSkip(M, e, loc) ==
    [M EXCEPT !.th.stack = Append(@, Frame("skip", e, loc, TRUE, TRUE, "start")),
              !.th.ret = NoRet]

\* _skipIgnorables: the comment is parsed until it fails, and the whole
\* round is made again when the round found one
SkipStep(M) ==
    LET f == Top(M)
        r == M.th.ret
    IN  IF f.ph = "start"
        THEN Call(SetTop(M, [f EXCEPT !.ph = "wait", !.flag = FALSE]), Comment, f.loc, TRUE, TRUE)
        ELSE IF r.k = "ok"
        THEN Call(SetTop(M, [f EXCEPT !.loc = r.loc, !.flag = TRUE]), Comment, r.loc, TRUE, TRUE)
        ELSE IF r.fatal THEN Pop(M, r)
        ELSE IF f.flag
        THEN Call(SetTop(M, [f EXCEPT !.flag = FALSE]), Comment, f.loc, TRUE, TRUE)
        ELSE Pop(M, Ok(f.loc, <<>>))

\* preParse in _parseNoCache: comments, then whitespace
PreParseStep(M) ==
    LET f == Top(M)
        r == M.th.ret
    IN  IF f.ph = "pre"
        THEN IF f.e.ign
             THEN CallSkip(SetTop(M, [f EXCEPT !.ph = "preskip"]), f.e, f.loc0)
             ELSE SetTop(M, [f EXCEPT !.ph = "impl",
                                      !.loc = IF f.e.ws
                                              THEN SkipWhitespace(M.th.instring, f.loc0)
                                              ELSE f.loc0])
        ELSE \* "preskip": _skipIgnorables is back
             IF r.k = "ok"
             THEN SetTop(M, [f EXCEPT !.ph = "impl",
                                      !.loc = IF f.e.ws
                                              THEN SkipWhitespace(M.th.instring, r.loc)
                                              ELSE r.loc])
             ELSE Return(M, r)

\* the index of the next expression of an And after i, and whether an
\* _ErrorStop was passed on the way
NextExpr(e, i) == IF i + 1 <= Len(e.exprs) /\ e.exprs[i + 1].kind = "ErrorStop" THEN i + 2 ELSE i + 1
PassesStop(e, i) == i + 1 <= Len(e.exprs) /\ e.exprs[i + 1].kind = "ErrorStop"

\* parseImpl, entered at the offset f.loc
ImplStep(M) ==
    LET f == Top(M)
        e == f.e
        w == [f EXCEPT !.ph = "wait"]
    IN  CASE e.kind \in TokenKinds ->
               Return(M, TokenImpl(e, M.th.instring, f.loc))
          [] e.kind = "And" ->
               Call(SetTop(M, [w EXCEPT !.i = 1]), e.exprs[1], f.loc, FALSE, f.act)
          [] e.kind = "MatchFirst" ->
               Call(SetTop(M, [w EXCEPT !.i = 1]), e.exprs[1], f.loc, TRUE, f.act)
          [] e.kind \in {"ZeroOrMore", "OneOrMore"} ->
               Call(SetTop(M, w), e.exprs[1], f.loc, TRUE, f.act)
          [] e.kind \in {"Opt", "Group", "Suppress", "DelimitedList", "Combine"} ->
               Call(SetTop(M, w), e.exprs[1], f.loc, FALSE, f.act)
          [] e.kind = "Forward" ->
               Call(SetTop(M, w), ForwardExpr(e.id), f.loc, FALSE, f.act)
          [] e.kind = "FollowedBy" ->
               \* self.expr.try_parse(instring, loc): doActions=False
               Call(SetTop(M, w), e.exprs[1], f.loc, TRUE, FALSE)

\* And.parseImpl, after the expression number f.i has returned r
AndResume(M, f, r) ==
    LET e == f.e
        j == NextExpr(e, f.i)
    IN  IF r.k = "ok"
        THEN IF j > Len(e.exprs)
             THEN Return(M, Ok(r.loc, f.toks \o r.toks))
             ELSE Call(SetTop(M, [f EXCEPT !.i = j, !.loc = r.loc, !.toks = @ \o r.toks,
                                  !.flag = @ \/ PassesStop(e, f.i)]),
                       e.exprs[j], r.loc, TRUE, f.act)
        ELSE \* after the _ErrorStop a ParseException becomes a ParseSyntaxException
             IF f.flag THEN Return(M, Exc(r.loc, TRUE)) ELSE Return(M, r)

\* the same with the next alternative attempted where the last one failed
MatchFirstResume_AtFailure(M, f, r) ==
    LET e    == f.e
        best == IF f.exc.k = "none" \/ r.loc > f.exc.loc THEN r ELSE f.exc
    IN  IF r.k = "ok" \/ r.fatal THEN Return(M, r)
        ELSE IF f.i < Len(e.exprs)
        THEN Call(SetTop(M, [f EXCEPT !.i = f.i + 1, !.exc = best]),
                  e.exprs[f.i + 1], r.loc, TRUE, f.act)
        ELSE Return(M, best)

\* MatchFirst.parseImpl: the first alternative that matches; when none does,
\* the exception that got furthest (the first of those that did)
MatchFirstResume(M, f, r) ==
    LET e    == f.e
        best == IF f.exc.k = "none" \/ r.loc > f.exc.loc THEN r ELSE f.exc
    IN  IF r.k = "ok" \/ r.fatal THEN Return(M, r)
        ELSE IF f.i < Len(e.exprs)
        THEN Call(SetTop(M, [f EXCEPT !.i = f.i + 1, !.exc = best]),
                  e.exprs[f.i + 1], f.loc, TRUE, f.act)
        ELSE Return(M, best)

\* _MultipleMatch.parseImpl (OneOrMore) and ZeroOrMore.parseImpl: f.i counts
\* the matches made, f.loc is where the last one ended
MultipleResume(M, f, r) ==
    LET e == f.e
    IN  IF f.ph = "loopskip"
        THEN IF r.k = "ok"
             THEN Call(SetTop(M, [f EXCEPT !.ph = "wait"]), e.exprs[1], r.loc, TRUE, f.act)
             ELSE Return(M, r)
        ELSE IF r.k = "ok"
        THEN LET g == [f EXCEPT !.i = f.i + 1, !.loc = r.loc, !.toks = @ \o r.toks]
             IN IF e.ign
                THEN CallSkip(SetTop(M, [g EXCEPT !.ph = "loopskip"]), e, r.loc)
                ELSE Call(SetTop(M, g), e.exprs[1], r.loc, TRUE, f.act)
        ELSE IF r.fatal THEN Return(M, r)
        ELSE IF f.i = 0 /\ e.kind = "OneOrMore" THEN Return(M, r)
        ELSE Return(M, Ok(f.loc, f.toks))

\* Combine.postParse: the tokens joined into one
RECURSIVE Join(_)
Join(toks) == IF toks = <<>> THEN "" ELSE Head(toks).v \o Join(Tail(toks))

\* the same with a Group that makes no list when doActions is off
EnhanceResume_GroupInActions(M, f, r) ==
    LET e == f.e
    IN  CASE e.kind = "Opt" ->
               IF r.k = "exc" /\ ~r.fatal THEN Return(M, Ok(f.loc, <<>>)) ELSE Return(M, r)
          [] e.kind = "Group" ->
               IF r.k = "ok"
               THEN Return(M, Ok(r.loc, IF f.act THEN <<Grp(r.toks)>> ELSE r.toks))
               ELSE Return(M, r)
          [] e.kind = "Suppress" ->
               IF r.k = "ok" THEN Return(M, Ok(r.loc, <<>>)) ELSE Return(M, r)
          [] e.kind = "Combine" ->
               IF r.k = "ok" THEN Return(M, Ok(r.loc, <<Tok(Join(r.toks))>>)) ELSE Return(M, r)
          [] e.kind \in {"Forward", "DelimitedList"} -> Return(M, r)
          [] e.kind = "FollowedBy" ->
               \* try_parse turns a fatal exception into a ParseException at loc
               IF r.k = "ok" THEN Return(M, Ok(f.loc, <<>>))
               ELSE IF r.fatal THEN Return(M, Exc(f.loc, FALSE))
               ELSE Return(M, r)

\* parseImpl of the elements around one expression, and their postParse
EnhanceResume(M, f, r) ==
    LET e == f.e
    IN  CASE e.kind = "Opt" ->
               IF r.k = "exc" /\ ~r.fatal THEN Return(M, Ok(f.loc, <<>>)) ELSE Return(M, r)
          [] e.kind = "Group" ->
               IF r.k = "ok" THEN Return(M, Ok(r.loc, <<Grp(r.toks)>>)) ELSE Return(M, r)
          [] e.kind = "Suppress" ->
               IF r.k = "ok" THEN Return(M, Ok(r.loc, <<>>)) ELSE Return(M, r)
          [] e.kind = "Combine" ->
               IF r.k = "ok" THEN Return(M, Ok(r.loc, <<Tok(Join(r.toks))>>)) ELSE Return(M, r)
          [] e.kind \in {"Forward", "DelimitedList"} -> Return(M, r)
          [] e.kind = "FollowedBy" ->
               \* try_parse turns a fatal exception into a ParseException at loc
               IF r.k = "ok" THEN Return(M, Ok(f.loc, <<>>))
               ELSE IF r.fatal THEN Return(M, Exc(f.loc, FALSE))
               ELSE Return(M, r)

\* parseImpl goes on with what the expression it called gave back
ResumeStep(M) ==
    LET f == Top(M)
        r == M.th.ret
    IN  CASE f.e.kind = "And" -> AndResume(M, f, r)
          [] f.e.kind = "MatchFirst" -> MatchFirstResume(M, f, r)
          [] f.e.kind \in {"ZeroOrMore", "OneOrMore"} -> MultipleResume(M, f, r)
          [] OTHER -> EnhanceResume(M, f, r)

\* parse_string ends: the tokens, or the exception, go to the caller
Finish(M, out) ==
    [M EXCEPT !.th.stack = <<>>, !.th.ret = NoRet, !.th.pc = "idle",
              !.th.results = Append(@, [call |-> M.th.cur, out |-> out])]

\* parse_string after reset_cache: self._parse(instring, 0), and with
\* parseAll the preParse and Empty() + StringEnd() after it
ParseStringStep(M) ==
    LET f == Top(M)
        r == M.th.ret
        s == M.th.instring
    IN  CASE f.ph = "start" ->
               Call(SetTop(M, [f EXCEPT !.ph = "main"]), f.e, 0, TRUE, TRUE)
          [] f.ph = "main" ->
               IF r.k = "exc" THEN Finish(M, r)
               ELSE IF ~f.flag THEN Finish(M, r)
               ELSE IF f.e.ign
               THEN CallSkip(SetTop(M, [f EXCEPT !.ph = "skip", !.loc = r.loc, !.toks = r.toks]),
                             f.e, r.loc)
               ELSE Call(SetTop(M, [f EXCEPT !.ph = "end", !.loc = r.loc, !.toks = r.toks]),
                         StringEndSeq(M.th.call), SkipWhitespace(s, r.loc), TRUE, TRUE)
          [] f.ph = "skip" ->
               IF r.k = "exc" THEN Finish(M, r)
               ELSE Call(SetTop(M, [f EXCEPT !.ph = "end"]),
                         StringEndSeq(M.th.call), SkipWhitespace(s, r.loc), TRUE, TRUE)
          [] f.ph = "end" ->
               IF r.k = "exc" THEN Finish(M, r) ELSE Finish(M, Ok(f.loc, f.toks))

\* one step of the call on top of the stack
MicroStep(M) ==
    LET f == Top(M)
    IN  CASE f.fn = "parse_string" -> ParseStringStep(M)
          [] f.fn = "skip" -> SkipStep(M)
          [] f.fn = "parse" /\ f.ph \in {"pre", "preskip"} -> PreParseStep(M)
          [] f.fn = "parse" /\ f.ph = "impl" -> ImplStep(M)
          [] OTHER -> ResumeStep(M)

(***************************************************************************)
(* _parseCache holds packrat_cache_lock from the outermost _parse to its   *)
(* return: while one thread is inside, no other thread parses.             *)
(***************************************************************************)
Locked(th) == \E i \in DOMAIN th.stack : th.stack[i].fn = "parse"

StepLimit == 128

\* at most n steps of the thread, stopping where it leaves the lock: one
\* step, or the first half of the steps and then the rest from the state
\* that the first half has reached
RECURSIVE Run(_, _)
Run(M0, n) ==
    CHOOSE R \in {IF n = 0 \/ ~Locked(M.th) THEN M
                  ELSE IF n = 1 THEN MicroStep(M)
                  ELSE Run(Run(M, n \div 2), n - (n \div 2)) : M \in {M0}} : TRUE

\* a call of rule.parse_string(text, parseAll=all) to be made
ToDo(rule, text, all) == [rule |-> rule, text |-> text, all |-> all]

\* a thread before its first call: todo are the calls it will make, one
\* after the other; call numbers the one in progress, cur is what it is
Thread(t, todo) ==
    [pc |-> "idle", todo |-> todo, cur |-> ToDo("", <<>>, FALSE), instring |-> <<>>,
     stack |-> <<>>, ret |-> NoRet, results |-> <<>>, call |-> <<t, 0>>]

\* program.parse_string(test, parseAll=True) begins: reset_cache(), the
\* tabs expanded, the stack of the call set up
ParseString(t) ==
    LET th == threads[t]
        d  == Head(th.todo)
        f  == [Frame("parse_string", Rule(d.rule), 0, TRUE, TRUE, "start") EXCEPT !.flag = d.all]
    IN  /\ th.pc = "idle"
        /\ th.todo # <<>>
        /\ threads' = [threads EXCEPT ![t] =
                          [th EXCEPT !.pc = "run", !.todo = Tail(th.todo), !.cur = d,
                                     !.instring = ExpandTabs(d.text),
                                     !.stack = <<f>>, !.ret = NoRet,
                                     !.call = <<t, th.call[2] + 1>>]]
        /\ cache' = CacheClear(cache)
        /\ trace' = [trace EXCEPT ![t] = <<>>]
        /\ UNCHANGED <<doc, web>>

\* the thread runs on, if no other thread holds the lock
Step(t) ==
    LET th == threads[t]
        M  == Run(MicroStep([th |-> th, cache |-> cache, ev |-> <<>>]), StepLimit - 1)
    IN  /\ th.pc = "run"
        /\ \A u \in DOMAIN threads \ {t} : ~Locked(threads[u])
        /\ threads' = [threads EXCEPT ![t] = M.th]
        /\ cache' = M.cache
        /\ trace' = [trace EXCEPT ![t] = @ \o M.ev]
        /\ UNCHANGED <<doc, web>>

(***************************************************************************)
(* Inputs.  A text is the sequence of its characters.                      *)
(***************************************************************************)
\* int x;
DeclX == <<"i","n","t"," ","x",";">>
\* int x; 
DeclXSpace == <<"i","n","t"," ","x",";"," ">>
\* int x;\t
DeclXTab == <<"i","n","t"," ","x",";","\t">>
\* int x; /* c */ 
DeclXComment == <<"i","n","t"," ","x",";"," ","/","*"," ","c"," ","*","/"," ">>
\* char *f(int a){}\n
DeclF == <<"c","h","a","r"," ","*","f","(","i","n","t"," ","a",")","{","}","\n">>
\* the empty text
NoDecl == <<>>

\* texts that are zero or more declarations, and whitespace or comments after
Declarations == {NoDecl, DeclX, DeclXSpace, DeclXTab, DeclXComment, DeclF}

\* $
Dollar == <<"$">>
\* x = 1;
StmtTail == <<"x"," ","="," ","1",";">>
\* int
IntTail == <<"i","n","t">>
\* /* c
OpenComment == <<"/","*"," ","c">>
\* int a[];
ArrayTail == <<"i","n","t"," ","a","[","]",";">>
\* int f(){ if x; }
IfTail == <<"i","n","t"," ","f","(",")","{"," ","i","f"," ","x",";"," ","}">>
\* int g(){ return }
ReturnTail == <<"i","n","t"," ","g","(",")","{"," ","r","e","t","u","r","n"," ","}">>
\* int\tf(){ do ; x }
DoTail == <<"i","n","t","\t","f","(",")","{"," ","d","o"," ",";"," ","x"," ","}">>

\* what may follow them and is no declaration: rest is the text, at the
\* offset in it where the parser gives up, fatal whether it does so with a
\* ParseSyntaxException
Rest(text, at, fatal) == [text |-> text, at |-> at, fatal |-> fatal]

Garbage ==
    {Rest(Dollar, 0, FALSE), Rest(StmtTail, 0, FALSE), Rest(IntTail, 0, FALSE),
     Rest(OpenComment, 0, FALSE), Rest(ArrayTail, 0, FALSE),
     Rest(IfTail, 12, TRUE), Rest(ReturnTail, 16, TRUE), Rest(DoTail, 14, TRUE)}

ProgramInputs ==
    {ToDo("program", d, TRUE) : d \in Declarations}
    \cup {ToDo("program", d \o g.text, TRUE) : d \in Declarations, g \in Garbage}

Threads == {1}

\* one thread that makes one call, of any of the inputs
InitWith(inputs) ==
    /\ threads \in {[t \in Threads |-> Thread(t, <<d>>)] : d \in inputs}
    /\ cache = EmptyCache
    /\ trace = [t \in Threads |-> <<>>]
    /\ doc = NoDoc
    /\ web = NoWeb

Init == InitWith(ProgramInputs)

Next == \E t \in DOMAIN threads : ParseString(t) \/ Step(t)

Spec == Init /\ [][Next]_vars

(***************************************************************************)
(* What the calls made so far have returned                                *)
(***************************************************************************)
Returned == UNION {{threads[t].results[i] : i \in 1..Len(threads[t].results)} : t \in DOMAIN threads}

\* the offset after the whitespace and the complete comments that start at loc
RECURSIVE SkipBlank(_, _)
SkipBlank(s, loc) ==
    LET w == ScanWhile(s, loc, WhiteChars)
        c == ReComment(s, w)
    IN  IF c >= 0 /\ StartsWith(s, c, <<"*", "/">>) THEN SkipBlank(s, c + 2) ELSE w

\* the offset that the character number n of the text has in the buffer
\* that parse_string parses, the text with its tabs expanded
Expanded(text, n) == Len(ExpandTabs(SubSeq(text, 1, n)))

(***************************************************************************)
(* C1, as stated: a program parse that succeeds has consumed the whole     *)
(* input but for whitespace and comments, and an input with characters     *)
(* left after its last declaration ends in an error, with no tokens, whose *)
(* offset is that of the first character left.                             *)
(***************************************************************************)
C1_AsStated ==
    \A r \in Returned :
        /\ r.call.rule = "program" /\ r.call.all /\ r.out.k = "ok"
              => SkipBlank(ExpandTabs(r.call.text), r.out.loc) = Len(ExpandTabs(r.call.text))
        /\ \A d \in Declarations, g \in Garbage :
              r.call = ToDo("program", d \o g.text, TRUE)
                 => r.out.k = "exc" /\ r.out.toks = <<>> /\ r.out.loc = Len(d)

(***************************************************************************)
(* C1 amended: a program parse that succeeds has consumed the whole input  *)
(* but for whitespace and comments; an input with characters left after    *)
(* its last declaration ends in an error with no tokens.  The offset of    *)
(* the error counts the characters of the text with its tabs expanded; it  *)
(* is that of the first character left, unless what is left begins a       *)
(* function whose body has an if, while, do or return statement that fails *)
(* after its keyword: then the error is that statement's                   *)
(* ParseSyntaxException, at the offset where the statement failed.         *)
(***************************************************************************)
C1_IncompleteParse ==
    \A r \in Returned :
        /\ r.call.rule = "program" /\ r.call.all /\ r.out.k = "ok"
              => SkipBlank(ExpandTabs(r.call.text), r.out.loc) = Len(ExpandTabs(r.call.text))
        /\ \A d \in Declarations, g \in Garbage :
              r.call = ToDo("program", d \o g.text, TRUE)
                 => /\ r.out.k = "exc" /\ r.out.toks = <<>>
                    /\ r.out.fatal = g.fatal
                    /\ r.out.loc = Expanded(r.call.text, Len(d) + g.at)

\* the parse of a declaration, a tab and a function whose if statement
\* fails after its keyword has ended
C1_Witness ==
    \E r \in Returned : r.call.text = DeclXTab \o IfTail /\ r.out.fatal

(***************************************************************************)
(* Statements: those that fail after their keyword, with the offset of the *)
(* failure in the text, and those that do not                              *)
(***************************************************************************)
\* if x;
IfNoParen == <<"i","f"," ","x",";">>
\* if (a b;
IfNoClose == <<"i","f"," ","(","a"," ","b",";">>
\* while (1
WhileOpen == <<"w","h","i","l","e"," ","(","1">>
\* do ; x
DoNoWhile == <<"d","o"," ",";"," ","x">>
\* do ; while 1;
DoWhileNoParen == <<"d","o"," ",";"," ","w","h","i","l","e"," ","1",";">>
\* return }
ReturnNothing == <<"r","e","t","u","r","n"," ","}">>
\* return a +;
ReturnHalf == <<"r","e","t","u","r","n"," ","a"," ","+",";">>
\* { x; if (a) }
BlockIf == <<"{"," ","x",";"," ","i","f"," ","(","a",")"," ","}">>
\* if (a) b; else while 1;
ElseWhile ==
    <<"i","f"," ","(","a",")"," ","b",";"," ","e","l","s","e"," ","w","h","i","l","e"," ","1",
      ";">>
\* if (a) if b;
IfIf == <<"i","f"," ","(","a",")"," ","i","f"," ","b",";">>
\* { { return } }
BlockBlockReturn == <<"{"," ","{"," ","r","e","t","u","r","n"," ","}"," ","}">>
\* while (a) do x; while (b)
WhileDo ==
    <<"w","h","i","l","e"," ","(","a",")"," ","d","o"," ","x",";"," ","w","h","i","l","e"," ",
      "(","b",")">>
\* /* c */ if\t/* d */ x;
CommentIf ==
    <<"/","*"," ","c"," ","*","/"," ","i","f","\t","/","*"," ","d"," ","*","/"," ","x",";">>

Committed ==
    {Rest(IfNoParen, 3, TRUE), Rest(IfNoClose, 6, TRUE), Rest(WhileOpen, 8, TRUE),
     Rest(DoNoWhile, 5, TRUE), Rest(DoWhileNoParen, 11, TRUE), Rest(ReturnNothing, 7, TRUE),
     Rest(ReturnHalf, 9, TRUE), Rest(BlockIf, 12, TRUE), Rest(ElseWhile, 21, TRUE),
     Rest(IfIf, 10, TRUE), Rest(BlockBlockReturn, 11, TRUE), Rest(WhileDo, 25, TRUE),
     Rest(CommentIf, 19, TRUE)}

\* if (a) b; else c;
IfElse == <<"i","f"," ","(","a",")"," ","b",";"," ","e","l","s","e"," ","c",";">>
\* while (a) { b; }
WhileBlock == <<"w","h","i","l","e"," ","(","a",")"," ","{"," ","b",";"," ","}">>
\* do x; while (a);
DoWhile == <<"d","o"," ","x",";"," ","w","h","i","l","e"," ","(","a",")",";">>
\* return a;
ReturnA == <<"r","e","t","u","r","n"," ","a",";">>
\* ifx;
NameIfx == <<"i","f","x",";">>
\* dox;
NameDox == <<"d","o","x",";">>
\* returnx;
NameReturnx == <<"r","e","t","u","r","n","x",";">>
\* if (a) b; else }
ElseNothing == <<"i","f"," ","(","a",")"," ","b",";"," ","e","l","s","e"," ","}">>
\* whilex (a) b;
WhileNothing == <<"w","h","i","l","e","x"," ","(","a",")"," ","b",";">>

NotCommitted == {IfElse, WhileBlock, DoWhile, ReturnA, NameIfx,
                 NameDox, NameReturnx, ElseNothing, WhileNothing}

\* "int f(){ " and " }" around a statement
FunctionHead == <<"i","n","t"," ","f","(",")","{"," ">>
FunctionEnd == <<" ","}">>
InFunction(text) == FunctionHead \o text \o FunctionEnd

\* statements to be the branches of an if, with their tokens
Branch(text, toks) == [text |-> text, toks |-> toks]
Branches ==
    {Branch(<<"s","1",";">>, <<Grp(<<Tok("s1")>>)>>),
     Branch(<<"{"," ","}">>, <<Grp(<<>>)>>),
     Branch(<<"r","e","t","u","r","n"," ","1",";">>, <<Grp(<<Tok("return"), Tok("1")>>)>>)}

\* if (c) if (c2) s1 else s2, for the branches s1 and s2
DanglingElse(s1, s2) ==
    <<"i","f"," ","(","c",")"," ","i","f"," ","(","c","2",")"," ">>
    \o s1.text \o <<" ","e","l","s","e"," ">> \o s2.text

\* if (a) if (b) s1 else s2 else s3
ElseElse(s1, s2, s3) ==
    <<"i","f"," ","(","a",")"," ","i","f"," ","(","b",")"," ">>
    \o s1.text \o <<" ","e","l","s","e"," ">> \o s2.text
    \o <<" ","e","l","s","e"," ">> \o s3.text

DanglingElseInputs ==
    {ToDo("stmt", DanglingElse(s1, s2), TRUE) : s1, s2 \in Branches}
    \cup {ToDo("program", InFunction(DanglingElse(s1, s2)), TRUE) : s1, s2 \in Branches}
    \cup {ToDo("stmt", ElseElse(s1, s2, s1), TRUE) : s1, s2 \in Branches}

StmtInputs ==
    DanglingElseInputs
    \cup {ToDo("stmt", g.text, all) : g \in Committed, all \in BOOLEAN}
    \cup {ToDo("stmt", text, all) : text \in NotCommitted, all \in BOOLEAN}
    \cup {ToDo("program", InFunction(g.text), TRUE) : g \in Committed}
    \cup {ToDo("program", InFunction(text), TRUE) : text \in NotCommitted}

InitStmt == InitWith(StmtInputs)

SpecStmt == InitStmt /\ [][Next]_vars

\* the statements that begin with a keyword and "-", and their keywords
CommitStmts == {"ifstmt", "whilestmt", "dowhilestmt", "returnstmt"}
KeywordOf(id) ==
    CASE id = "ifstmt" -> "IF" [] id = "whilestmt" -> "WHILE"
      [] id = "dowhilestmt" -> "DO" [] id = "returnstmt" -> "RETURN"

\* in the events tr of a parse of s: the statement whose attempt ended at
\* event i had matched its keyword
KeywordMatched(tr, s, i) ==
    \E j \in 1..(i - 1) :
        /\ tr[j].what \in {"set", "hit"}
        /\ tr[j].id = KeywordOf(tr[i].id)
        /\ tr[j].loc = SkipBlank(s, tr[i].loc)
        /\ tr[j].val.k = "ok"

(***************************************************************************)
(* C2: when an if, while, do or return statement fails after its keyword   *)
(* has matched, the failure is a ParseSyntaxException; from then on the    *)
(* parse tries nothing more (it enters no element and reads no stored      *)
(* outcome: every enclosing element ends with that same exception), and    *)
(* parse_string ends with that exception.                                  *)
(***************************************************************************)
C2_HardSyntaxError ==
    /\ \A t \in DOMAIN threads :
          LET tr == trace[t]
              th == threads[t]
          IN  \A i \in DOMAIN tr :
                 (/\ tr[i].what = "set" /\ tr[i].id \in CommitStmts
                  /\ tr[i].val.k = "exc"
                  /\ KeywordMatched(tr, th.instring, i))
                 => /\ tr[i].val.fatal
                    /\ \A j \in (i + 1)..Len(tr) : tr[j].what = "set" /\ tr[j].val = tr[i].val
                    /\ th.pc = "idle" => th.results[Len(th.results)].out = tr[i].val
    /\ \A r \in Returned, g \in Committed :
          /\ r.call.text = g.text
                => r.out = Exc(Expanded(r.call.text, g.at), TRUE)
          /\ r.call.text = InFunction(g.text)
                => r.out = Exc(SkipBlank(ExpandTabs(r.call.text),
                                         Expanded(r.call.text, Len(FunctionHead) + g.at)), TRUE)

\* the program whose function has a block with an if statement that lacks
\* its then-branch has ended in a ParseSyntaxException
C2_Witness ==
    \E r \in Returned :
        r.call = ToDo("program", InFunction(BlockIf), TRUE) /\ r.out.k = "exc" /\ r.out.fatal

(***************************************************************************)
(* C6: in "if (c) if (c2) s1 else s2" the else belongs to the inner if:    *)
(* the outer if statement has the condition c and the inner statement and  *)
(* no else, the inner one has c2, s1, else and s2.  With one more else     *)
(* after s2, that one belongs to the outer if.                             *)
(***************************************************************************)
C6_DanglingElse ==
    \A r \in Returned, s1, s2 \in Branches :
        LET inner == Grp(<<Tok("if"), Tok("c2")>> \o s1.toks \o <<Tok("else")>> \o s2.toks)
            outer == Grp(<<Tok("if"), Tok("c"), inner>>)
            innerB == Grp(<<Tok("if"), Tok("b")>> \o s1.toks \o <<Tok("else")>> \o s2.toks)
            outerA == Grp(<<Tok("if"), Tok("a"), innerB, Tok("else")>> \o s1.toks)
        IN  /\ r.call = ToDo("stmt", DanglingElse(s1, s2), TRUE)
                => r.out.k = "ok" /\ r.out.toks = <<outer>>
            /\ r.call = ToDo("program", InFunction(DanglingElse(s1, s2)), TRUE)
                => /\ r.out.k = "ok"
                   /\ r.out.toks = <<Grp(<<Grp(<<Tok("int")>>), Tok("f"), Grp(<<outer>>)>>)>>
            /\ r.call = ToDo("stmt", ElseElse(s1, s2, s1), TRUE)
                => r.out.k = "ok" /\ r.out.toks = <<outerA>>

\* the parse of "if (c) if (c2) s1; else return 1;" has ended
C6_Witness ==
    \E r \in Returned :
        /\ r.call.rule = "stmt" /\ r.out.k = "ok"
        /\ r.call.text = <<"i","f"," ","(","c",")"," ","i","f"," ","(","c","2",")"," ",
                           "s","1",";"," ","e","l","s","e"," ","r","e","t","u","r","n"," ","1",";">>

(***************************************************************************)
(* Expressions: the binary operators by tier, tightest first               *)
(***************************************************************************)
MulOps    == {<<"*">>, <<"/">>, <<"%">>}
AddOps    == {<<"+">>, <<"-">>}
RelOps    == {<<"<">>, <<"=","=">>, <<">">>, <<"<","=">>, <<">","=">>, <<"!","=">>}
AssignOps == {<<"=">>}
Tiers     == <<MulOps, AddOps, RelOps, AssignOps>>

\* the characters of a text as one token
Text(chars) == Slice(chars, 0, Len(chars))

\* x op1 y op2 z
Chain(op1, op2) == <<"x"," ">> \o op1 \o <<" ","y"," ">> \o op2 \o <<" ","z">>

SameTierInputs ==
    {ToDo("expr", Chain(op1, op2), TRUE) :
        <<op1, op2>> \in UNION {Tiers[i] \X Tiers[i] : i \in DOMAIN Tiers}}

InitChain == InitWith(SameTierInputs)

SpecChain == InitChain /\ [][Next]_vars

(***************************************************************************)
(* C7, as stated: for two operators of one tier, x op1 y op2 z gives a     *)
(* node for op2 whose left operand is the node of x op1 y.                 *)
(***************************************************************************)
C7_AsStated ==
    \A r \in Returned, i \in DOMAIN Tiers :
        \A op1, op2 \in Tiers[i] :
            r.call = ToDo("expr", Chain(op1, op2), TRUE)
               => /\ r.out.k = "ok"
                  /\ r.out.toks = <<Grp(<<Grp(<<Tok("x"), Tok(Text(op1)), Tok("y")>>),
                                          Tok(Text(op2)), Tok("z")>>)>>

(***************************************************************************)
(* C7 amended: for two operators of one tier, x op1 y op2 z gives one      *)
(* flat node of the three operands and the two operators in the order of   *)
(* the text, [x, op1, y, op2, z]: x op1 y is no node of its own, and       *)
(* neither is y op2 z.                                                     *)
(***************************************************************************)
C7_FlatChain ==
    \A r \in Returned, i \in DOMAIN Tiers :
        \A op1, op2 \in Tiers[i] :
            r.call = ToDo("expr", Chain(op1, op2), TRUE)
               => /\ r.out.k = "ok"
                  /\ r.out.toks = <<Grp(<<Tok("x"), Tok(Text(op1)), Tok("y"),
                                          Tok(Text(op2)), Tok("z")>>)>>

\* the parse of "x == y != z" has ended
C7_Witness ==
    \E r \in Returned :
        r.call.text = Chain(<<"=","=">>, <<"!","=">>) /\ r.out.k = "ok"

(***************************************************************************)
(* Prefix operators: up to MaxUnary of "!", "-" and "*" before x, with a   *)
(* space after each, and with none where that puts no "-" next to a "-"    *)
(***************************************************************************)
MaxUnary == 3

UnaryOps == {"!", "-", "*"}

UnaryStacks == UNION {[1..k -> UnaryOps] : k \in 0..MaxUnary}

RECURSIVE Spaced(_)
Spaced(ops) == IF ops = <<>> THEN <<"x">> ELSE <<Head(ops), " ">> \o Spaced(Tail(ops))

Dense(ops) == ops \o <<"x">>

NoMinusMinus(ops) == \A i \in 1..(Len(ops) - 1) : ~(ops[i] = "-" /\ ops[i + 1] = "-")

\* k nodes, each of an operator and the node of what follows it
RECURSIVE Nested(_)
Nested(ops) == IF ops = <<>> THEN Tok("x") ELSE Grp(<<Tok(Head(ops)), Nested(Tail(ops))>>)

UnaryInputs ==
    {ToDo("expr", Spaced(ops), TRUE) : ops \in UnaryStacks}
    \cup {ToDo("expr", Dense(ops), TRUE) : ops \in {o \in UnaryStacks : NoMinusMinus(o)}}

InitUnary == InitWith(UnaryInputs)

SpecUnary == InitUnary /\ [][Next]_vars

(***************************************************************************)
(* C8: k operators of "!", "-", "*" before an operand give k nested nodes  *)
(* of one operator and one operand each, the leftmost operator outermost;  *)
(* "- -x" is [-, [-, x]].                                                  *)
(***************************************************************************)
C8_PrefixStack ==
    \A r \in Returned, ops \in UnaryStacks :
        (\/ r.call = ToDo("expr", Spaced(ops), TRUE)
         \/ NoMinusMinus(ops) /\ r.call = ToDo("expr", Dense(ops), TRUE))
        => r.out.k = "ok" /\ r.out.toks = <<Nested(ops)>>

\* the parse of "- - x" has ended
C8_Witness ==
    \E r \in Returned :
r.call.text = <<"-"," ","-"," ","x">> /\ r.out.k = "ok"

(***************************************************************************)
(* Two operators of different tiers, and a unary operator with a binary    *)
(***************************************************************************)
PrefixOps  == {<<"!">>, <<"-">>, <<"*">>, <<"+","+">>, <<"-","-">>}
PostfixOps == {<<"+","+">>, <<"-","-">>}
\* one binary operator of each tier
SomeBinary == {<<"*">>, <<"-">>, <<"=","=">>, <<"=">>}

\* the pairs of an operator of a tighter tier and one of a looser tier
TierPairs ==
    UNION {Tiers[i] \X Tiers[j] : <<i, j>> \in {p \in (DOMAIN Tiers) \X (DOMAIN Tiers) : p[1] < p[2]}}

Sp == <<" ">>
\* u x b y, x b u y, x p b y, x b y p
PrefixLeft(u, b)   == u \o Sp \o <<"x">> \o Sp \o b \o Sp \o <<"y">>
PrefixRight(u, b)  == <<"x">> \o Sp \o b \o Sp \o u \o Sp \o <<"y">>
PostfixLeft(p, b)  == <<"x">> \o Sp \o p \o Sp \o b \o Sp \o <<"y">>
PostfixRight(p, b) == <<"x">> \o Sp \o b \o Sp \o <<"y">> \o Sp \o p

\* a = b < c + d * e
AllTiers == <<"a"," ","="," ","b"," ","<"," ","c"," ","+"," ","d"," ","*"," ","e">>

PrecedenceInputs ==
    {ToDo("expr", Chain(p[1], p[2]), TRUE) : p \in TierPairs}
    \cup {ToDo("expr", Chain(p[2], p[1]), TRUE) : p \in TierPairs}
    \cup {ToDo("expr", PrefixLeft(u, b), TRUE) : u \in PrefixOps, b \in SomeBinary}
    \cup {ToDo("expr", PrefixRight(u, b), TRUE) : u \in PrefixOps, b \in SomeBinary}
    \cup {ToDo("expr", PostfixLeft(p, b), TRUE) : p \in PostfixOps, b \in SomeBinary}
    \cup {ToDo("expr", PostfixRight(p, b), TRUE) : p \in PostfixOps, b \in SomeBinary}
    \cup {ToDo("expr", AllTiers, TRUE)}

InitPrecedence == InitWith(PrecedenceInputs)

SpecPrecedence == InitPrecedence /\ [][Next]_vars

\* the node of a binary operator and its two operands
Binary(l, op, r) == Grp(<<l, Tok(Text(op)), r>>)

(***************************************************************************)
(* C9: of two binary operators of different tiers, the one of the tighter  *)
(* tier (in the order * / %, + -, relational, =) makes a node that is an   *)
(* operand of the other, on whichever side it stands; a prefix or postfix  *)
(* operator with its operand makes a node that is an operand of a binary   *)
(* operator next to it; a = b < c + d * e is [a, =, [b, <, [c, +, [d, *,   *)
(* e]]]].                                                                  *)
(***************************************************************************)
C9_Precedence ==
    \A r \in Returned :
        /\ \A p \in TierPairs :
              /\ r.call = ToDo("expr", Chain(p[1], p[2]), TRUE)
                    => r.out.toks = <<Binary(Binary(Tok("x"), p[1], Tok("y")), p[2], Tok("z"))>>
              /\ r.call = ToDo("expr", Chain(p[2], p[1]), TRUE)
                    => r.out.toks = <<Binary(Tok("x"), p[2], Binary(Tok("y"), p[1], Tok("z")))>>
        /\ \A u \in PrefixOps, b \in SomeBinary :
              /\ r.call = ToDo("expr", PrefixLeft(u, b), TRUE)
                    => r.out.toks = <<Binary(Grp(<<Tok(Text(u)), Tok("x")>>), b, Tok("y"))>>
              /\ r.call = ToDo("expr", PrefixRight(u, b), TRUE)
                    => r.out.toks = <<Binary(Tok("x"), b, Grp(<<Tok(Text(u)), Tok("y")>>))>>
        /\ \A p \in PostfixOps, b \in SomeBinary :
              /\ r.call = ToDo("expr", PostfixLeft(p, b), TRUE)
                    => r.out.toks = <<Binary(Grp(<<Tok("x"), Tok(Text(p))>>), b, Tok("y"))>>
              /\ r.call = ToDo("expr", PostfixRight(p, b), TRUE)
                    => r.out.toks = <<Binary(Tok("x"), b, Grp(<<Tok("y"), Tok(Text(p))>>))>>
        /\ r.call = ToDo("expr", AllTiers, TRUE)
              => r.out.toks =
                   <<Binary(Tok("a"), <<"=">>,
                            Binary(Tok("b"), <<"<">>,
                                   Binary(Tok("c"), <<"+">>,
                                          Binary(Tok("d"), <<"*">>, Tok("e")))))>>
        /\ r.call \in PrecedenceInputs => r.out.k = "ok"

\* the parse of "a = b < c + d * e" has ended
C9_Witness == \E r \in Returned : r.call.text = AllTiers /\ r.out.k = "ok"

(***************************************************************************)
(* Subscripts: n[i][j] and n[i], for names n and index expressions i, j    *)
(***************************************************************************)
Names   == {<<"a">>, <<"x","1">>}
Indices == {Branch(<<"0">>, <<Tok("0")>>),
            Branch(<<"i">>, <<Tok("i")>>),
            Branch(<<"i"," ","+"," ","1">>, <<Grp(<<Tok("i"), Tok("+"), Tok("1")>>)>>)}

Subscript(n, i) == n \o <<"[">> \o i.text \o <<"]">>
Subscript2(n, i, j) == Subscript(n, i) \o <<"[">> \o j.text \o <<"]">>

SubscriptInputs ==
    {ToDo("expr", Subscript2(n, i, j), all) : n \in Names, i, j \in Indices, all \in BOOLEAN}
    \cup {ToDo("stmt", Subscript2(n, i, i) \o <<";">>, TRUE) : n \in Names, i \in Indices}
    \cup {ToDo("program", InFunction(Subscript2(n, i, i) \o <<";">>), TRUE) :
              n \in Names, i \in Indices}
    \cup {ToDo("stmt", Subscript(n, i) \o <<";">>, TRUE) : n \in Names, i \in Indices}

InitSubscript == InitWith(SubscriptInputs)

SpecSubscript == InitSubscript /\ [][Next]_vars

ProgramX == <<"i","n","t"," ","x",";">>
\* int f(){}
ProgramF == <<"i","n","t"," ","f","(",")","{","}">>
\* int f(){ a = b; }
ProgramAssign == <<"i","n","t"," ","f","(",")","{"," ","a"," ","="," ","b",";"," ","}">>
\* int f(int n){ if (n < 2) return 1; }
ProgramIf ==
    <<"i","n","t"," ","f","(","i","n","t"," ","n",")","{"," ","i","f"," ","(","n"," ","<"," ",
      "2",")"," ","r","e","t","u","r","n"," ","1",";"," ","}">>
\* /* c */ char *s; /* d */
ProgramComment ==
    <<"/","*"," ","c"," ","*","/"," ","c","h","a","r"," ","*","s",";"," ","/","*"," ","d"," ",
      "*","/">>
\* int f(){ x = ; }
ProgramBad == <<"i","n","t"," ","f","(",")","{"," ","x"," ","="," ",";"," ","}">>
\* x;
StmtX == <<"x",";">>
\* f(1, 'c', "s");
StmtCall == <<"f","(","1",","," ","'","c","'",","," ","\"","s","\"",")",";">>
\* while\t(i) i = i - 1;
StmtWhile ==
    <<"w","h","i","l","e","\t","(","i",")"," ","i"," ","="," ","i"," ","-"," ","1",";">>
\* x
ExprX == <<"x">>
\* a + b * c
ExprSum == <<"a"," ","+"," ","b"," ","*"," ","c">>
\* (a)[0]
ExprParen == <<"(","a",")","[","0","]">>
\* - -x
ExprUnary == <<"-"," ","-","x">>

MemoInputs ==
    {ToDo("program", text, TRUE) :
        text \in {ProgramX, ProgramF, ProgramAssign, ProgramIf, ProgramComment, ProgramBad}}
    \cup {ToDo("stmt", text, TRUE) : text \in {StmtX, StmtCall, StmtWhile}}
    \cup {ToDo("expr", text, all) : text \in {ExprX, ExprSum, ExprParen, ExprUnary}, all \in BOOLEAN}

InitMemo == InitWith(MemoInputs)

SpecMemo == InitMemo /\ [][Next]_vars

\* two events about one element at one offset, and with the same flags
SamePlace(a, b) == a.id = b.id /\ a.loc = b.loc
SameKey(a, b)   == SamePlace(a, b) /\ a.pre = b.pre /\ a.act = b.act

\* the outcomes stored between the events j and i of tr
SetsBetween(tr, j, i) == Cardinality({k \in (j + 1)..(i - 1) : tr[k].what = "set"})

\* a thread whose call has ended: trace holds the events of the whole call
Ended(t) == threads[t].pc = "idle" /\ threads[t].results # <<>>

(***************************************************************************)
(* C3, as stated: in one call of parse_string no element is entered twice  *)
(* at one offset.                                                          *)
(***************************************************************************)
C3_AsStated ==
    \A t \in DOMAIN threads :
        Ended(t) =>
            \A i \in DOMAIN trace[t] :
                trace[t][i].what = "body" =>
                    \A j \in 1..(i - 1) :
                        ~(trace[t][j].what = "body" /\ SamePlace(trace[t][i], trace[t][j]))

(***************************************************************************)
(* C3 amended: in one call of parse_string during which no other call      *)
(* begins, an element is entered at an offset with given flags             *)
(* callPreParse and doActions only when no outcome                         *)
(* for that element, offset and flags is among the last 128 outcomes       *)
(* stored: it is entered again at the offset only with other flags, or     *)
(* after 128 or more outcomes have been stored since its own.  Every other *)
(* attempt returns the outcome stored last for that element, offset and    *)
(* flags, and enters nothing.                                              *)
(***************************************************************************)
C3_OncePerKey ==
    \A t \in DOMAIN threads :
        Ended(t) =>
            LET tr == trace[t]
            IN  \A i \in DOMAIN tr :
                   /\ tr[i].what = "body" =>
                          \A j \in 1..(i - 1) :
                              tr[j].what = "set" /\ SameKey(tr[i], tr[j])
                                 => SetsBetween(tr, j, i) >= PackratCacheSize
                   /\ tr[i].what = "hit" =>
                          \E j \in 1..(i - 1) :
                              /\ tr[j].what = "set" /\ SameKey(tr[i], tr[j])
                              /\ tr[j].val = tr[i].val
                              /\ SetsBetween(tr, j, i) < PackratCacheSize

\* a call has ended in which an element was entered a second time at an
\* offset with the same flags, and in which a stored outcome was returned
C3_Witness ==
    \E t \in DOMAIN threads :
        /\ Ended(t)
        /\ \E i, j \in DOMAIN trace[t] :
              /\ j < i /\ trace[t][i].what = "body" /\ trace[t][j].what = "body"
              /\ SameKey(trace[t][i], trace[t][j])
        /\ \E i \in DOMAIN trace[t] : trace[t][i].what = "hit"

(***************************************************************************)
(* C4: in every state the cache holds, for the text of a call, one outcome *)
(* for all the entries of an element at an offset; and in one call every   *)
(* outcome stored for an element at an offset is the one stored for it     *)
(* before.                                                                 *)
(***************************************************************************)
C4_OneResult ==
    /\ \A a, b \in DOMAIN cache.items :
          (/\ cache.items[a].key[1] = cache.items[b].key[1]
           /\ cache.items[a].key[2] = cache.items[b].key[2]
           /\ cache.items[a].key[5] = cache.items[b].key[5])
          => cache.items[a].val = cache.items[b].val
    /\ \A t \in DOMAIN threads :
          Ended(t) =>
              \A i \in DOMAIN trace[t] :
                  trace[t][i].what = "set" =>
                      \A j \in 1..(i - 1) :
                          trace[t][j].what = "set" /\ SamePlace(trace[t][i], trace[t][j])
                             => trace[t][j].val = trace[t][i].val

\* a call has ended in which an outcome was stored a second time for an
\* element at an offset
C4_Witness ==
    \E t \in DOMAIN threads :
        /\ Ended(t)
        /\ \E i, j \in DOMAIN trace[t] :
              /\ j < i /\ trace[t][i].what = "set" /\ trace[t][j].what = "set"
              /\ SamePlace(trace[t][i], trace[t][j])

(***************************************************************************)
(* Two threads that parse different inputs with the one grammar: thread 1  *)
(* makes two calls, one after the other, thread 2 one call between, before *)
(* or after them.                                                          *)
(***************************************************************************)
\* int x;
InputX == <<"i","n","t"," ","x",";">>
\* int x;\t
InputXTab == <<"i","n","t"," ","x",";","\t">>
\* int x;  
InputXSpaces == <<"i","n","t"," ","x",";"," "," ">>
\* int y;
InputY == <<"i","n","t"," ","y",";">>

TwoInputs == {InputX, InputXTab, InputXSpaces, InputY}

\* the inputs of the first and second call of thread 1 and of the call of
\* thread 2: three different inputs
TwoCalls ==
    {abc \in {InputX, InputXTab} \X {InputY, InputXSpaces} \X {InputXSpaces, InputY} :
        abc[2] # abc[3]}

InitTwo ==
    /\ threads \in {[t \in {1, 2} |->
                        IF t = 1
                        THEN Thread(1, <<ToDo("program", abc[1], TRUE),
                                         ToDo("program", abc[2], TRUE)>>)
                        ELSE Thread(2, <<ToDo("program", abc[3], TRUE)>>)] :
                     abc \in TwoCalls}
    /\ cache = EmptyCache
    /\ trace = [t \in {1, 2} |-> <<>>]
    /\ doc = NoDoc
    /\ web = NoWeb

SpecTwo == InitTwo /\ [][Next]_vars

\* the outcomes that the call in progress of thread t, or its last call, has
\* read and that another call had stored
CrossReads(t) ==
    {i \in DOMAIN trace[t] :
        trace[t][i].what = "hit" /\ trace[t][i].by.id # threads[t].call}

(***************************************************************************)
(* C5, as stated: a call of parse_string reads no outcome that a call for  *)
(* another input has stored, whether the calls follow one another or are   *)
(* interleaved.                                                            *)
(***************************************************************************)
C5_AsStated ==
    \A t \in DOMAIN threads :
        \A i \in CrossReads(t) : trace[t][i].by.text = threads[t].cur.text

(***************************************************************************)
(* C5 amended: a call of parse_string reads no outcome that a call for     *)
(* another input has stored, unless the two inputs are the same text once  *)
(* their tabs are expanded; and it reads none of a call that the same      *)
(* thread made before.                                                     *)
(***************************************************************************)
C5_PrivatePerText ==
    \A t \in DOMAIN threads :
        \A i \in CrossReads(t) :
            /\ ExpandTabs(trace[t][i].by.text) = threads[t].instring
            /\ trace[t][i].by.id[1] # t

\* two calls for different inputs have ended, in two threads, after both had
\* begun, and each has read outcomes, none of them stored by the other
C5_Witness ==
    /\ \A t \in DOMAIN threads : Ended(t) /\ threads[t].todo = <<>>
    /\ threads[1].cur.text # threads[2].cur.text
    /\ ExpandTabs(threads[1].cur.text) # ExpandTabs(threads[2].cur.text)
    /\ \A t \in DOMAIN threads :
          /\ CrossReads(t) = {}
          /\ \E i \in DOMAIN trace[t] : trace[t][i].what = "hit"

(***************************************************************************)
(* Calls of the result of a call: n(a)(b) and n(a)(b)(c)                   *)
(***************************************************************************)
ArgLists == {Branch(<<>>, <<>>),
             Branch(<<"1">>, <<Tok("1")>>),
             Branch(<<"a",","," ","b">>, <<Tok("a"), Tok("b")>>)}

CallOf(n, a) == n \o <<"(">> \o a.text \o <<")">>
Call2(n, a, b) == CallOf(n, a) \o <<"(">> \o b.text \o <<")">>
Call3(n, a, b, c) == Call2(n, a, b) \o <<"(">> \o c.text \o <<")">>

\* the tokens of n(a)(b): the call n(a) and the list of b
Call2Toks(n, a, b) == <<Grp(<<Tok(Text(n)), Grp(a.toks)>>), Grp(b.toks)>>

CallInputs ==
    {ToDo("expr", Call2(n, a, b), all) : n \in Names, a, b \in ArgLists, all \in BOOLEAN}
    \cup {ToDo("stmt", Call2(n, a, b) \o <<";">>, TRUE) : n \in Names, a, b \in ArgLists}
    \cup {ToDo("program", InFunction(Call2(n, a, a) \o <<";">>), TRUE) :
              n \in Names, a \in ArgLists}
    \cup {ToDo("expr", Call3(n, a, b, a), FALSE) : n \in Names, a, b \in ArgLists}
    \cup {ToDo("stmt", Call3(n, a, b, a) \o <<";">>, TRUE) : n \in Names, a, b \in ArgLists}

InitCall == InitWith(CallInputs)

SpecCall == InitCall /\ [][Next]_vars

(***************************************************************************)
(* C11, as stated: the expression rule never takes n(a)(b) as one          *)
(* expression, and the statement "n(a)(b);" is rejected.                   *)
(***************************************************************************)
C11_AsStated ==
    \A r \in Returned, n \in Names, a, b \in ArgLists :
        /\ r.call = ToDo("expr", Call2(n, a, b), FALSE)
              => ~(r.out.k = "ok" /\ r.out.loc = Len(Call2(n, a, b)))
        /\ r.call = ToDo("stmt", Call2(n, a, b) \o <<";">>, TRUE) => r.out.k = "exc"

(***************************************************************************)
(* C11 amended: the expression rule takes n(a)(b) as one expression, the   *)
(* call n(a) as its operand and (b) as its one suffix, with the tokens     *)
(* [[n, [a]], [b]]; the statement "n(a)(b);" is accepted, alone and in a   *)
(* function.  Of n(a)(b)(c) the expression rule takes n(a)(b) and stops    *)
(* before the third "("; the statement "n(a)(b)(c);" is rejected.          *)
(***************************************************************************)
C11_CallOfCall ==
    \A r \in Returned, n \in Names, a, b \in ArgLists :
        /\ \A all \in BOOLEAN :
              r.call = ToDo("expr", Call2(n, a, b), all)
                 => r.out = Ok(Len(Call2(n, a, b)), Call2Toks(n, a, b))
        /\ r.call = ToDo("stmt", Call2(n, a, b) \o <<";">>, TRUE)
              => r.out.k = "ok" /\ r.out.toks = <<Grp(Call2Toks(n, a, b))>>
        /\ r.call = ToDo("program", InFunction(Call2(n, a, a) \o <<";">>), TRUE)
              => /\ r.out.k = "ok"
                 /\ r.out.toks = <<Grp(<<Grp(<<Tok("int")>>), Tok("f"),
                                         Grp(<<Grp(Call2Toks(n, a, a))>>)>>)>>
        /\ r.call = ToDo("expr", Call3(n, a, b, a), FALSE)
              => r.out = Ok(Len(Call2(n, a, b)), Call2Toks(n, a, b))
        /\ r.call = ToDo("stmt", Call3(n, a, b, a) \o <<";">>, TRUE)
              => r.out.k = "exc" /\ r.out.loc = Len(Call2(n, a, b))

\* the parse of the statement "a()(1);" has ended with its tokens
C11_Witness ==
    \E r \in Returned :
        /\ r.call = ToDo("stmt", <<"a","(",")","(","1",")",";">>, TRUE)
        /\ r.out.k = "ok"

(***************************************************************************)
(* Prefix and postfix operators about one primary: u q p and q p           *)
(***************************************************************************)
\* primaries with their tokens: a name, literals, a call, an expression in
\* parentheses
Primaries ==
    {Branch(<<"s">>, Tok("s")),
     Branch(<<"1">>, Tok("1")),
     Branch(<<"'","c","'">>, Tok("'c'")),
     Branch(<<"f","(",")">>, Grp(<<Tok("f"), Grp(<<>>)>>)),
     Branch(<<"(","a",")">>, Tok("a"))}

\* with and without blanks between the operators and the primary
Gaps == {<<>>, <<" ">>}

PrefixPostfix(u, q, p, gap) == u \o gap \o q.text \o gap \o p
Postfix(q, p, gap) == q.text \o gap \o p

PostfixInputs ==
    {ToDo("expr", PrefixPostfix(u, q, p, gap), TRUE) :
        u \in PrefixOps, q \in Primaries, p \in PostfixOps, gap \in Gaps}
    \cup {ToDo("expr", Postfix(q, p, gap), TRUE) :
              q \in Primaries, p \in PostfixOps, gap \in Gaps}

InitPostfix == InitWith(PostfixInputs)

SpecPostfix == InitPostfix /\ [][Next]_vars

(***************************************************************************)
(* C12, as stated: the operand of a postfix "++" or "--" is the primary    *)
(* before it, never a prefix expression: u q p is the node of u over the   *)
(* node of q and p, and in "*s++" the "++" applies to s.                   *)
(***************************************************************************)
C12_AsStated ==
    \A r \in Returned, u \in PrefixOps, q \in Primaries, p \in PostfixOps, gap \in Gaps :
        r.call = ToDo("expr", PrefixPostfix(u, q, p, gap), TRUE)
           => /\ r.out.k = "ok"
              /\ r.out.toks = <<Grp(<<Tok(Text(u)), Grp(<<q.toks, Tok(Text(p))>>)>>)>>

(***************************************************************************)
(* C12 amended: a postfix "++" or "--" applies to the prefix expression    *)
(* before it, the prefix operators binding tighter: u q p is the node of   *)
(* the node of u and q, and p, so in "*s++" the "++" applies to "*s"; with *)
(* no prefix operator before the primary, q p is the node of q and p.      *)
(***************************************************************************)
C12_PostfixOfPrefix ==
    \A r \in Returned, q \in Primaries, p \in PostfixOps, gap \in Gaps :
        /\ \A u \in PrefixOps :
              r.call = ToDo("expr", PrefixPostfix(u, q, p, gap), TRUE)
                 => /\ r.out.k = "ok"
                    /\ r.out.loc = Len(PrefixPostfix(u, q, p, gap))
                    /\ r.out.toks = <<Grp(<<Grp(<<Tok(Text(u)), q.toks>>), Tok(Text(p))>>)>>
        /\ r.call = ToDo("expr", Postfix(q, p, gap), TRUE)
              => /\ r.out.k = "ok"
                 /\ r.out.toks = <<Grp(<<q.toks, Tok(Text(p))>>)>>

\* the parse of "*s++" has ended with its tokens
C12_Witness ==
    \E r \in Returned :
        /\ r.call = ToDo("expr", <<"*","s","+","+">>, TRUE)
        /\ r.out.k = "ok"

(***************************************************************************)
(* The alternatives of a statement: statements of every kind, and texts    *)
(* that are no statement                                                   *)
(***************************************************************************)
\* ;
EmptyStmt == <<";">>
\* { x; ; }
BlockStmts == <<"{"," ","x",";"," ",";"," ","}">>
\* x = 1;
AssignStmt == <<"x"," ","="," ","1",";">>
\* $
NoStmt == <<"$">>
\* x
NoSemi == <<"x">>
\* { x; $ }
BlockBad == <<"{"," ","x",";"," ","$"," ","}">>
\* if (a) ; else { }
IfEmpty == <<"i","f"," ","(","a",")"," ",";"," ","e","l","s","e"," ","{"," ","}">>

AltInputs ==
    {ToDo("stmt", text, TRUE) :
        text \in NotCommitted \cup {EmptyStmt, BlockStmts, AssignStmt, NoStmt, NoSemi,
                                    BlockBad, IfEmpty, IfNoParen, DoNoWhile, BlockIf}}
    \cup {ToDo("program", InFunction(text), TRUE) :
              text \in {EmptyStmt, BlockStmts, IfElse, ReturnA}}

InitAlt == InitWith(AltInputs)

SpecAlt == InitAlt /\ [][Next]_vars

\* the alternatives of stmt, in their order
AltOrder == <<"ifstmt", "whilestmt", "dowhilestmt", "returnstmt", "exprstmt", "block", "SEMI">>

\* in the events tr: the event that ends the call entered at event i
OwnSet(tr, i) ==
    CHOOSE j \in (i + 1)..Len(tr) :
        /\ tr[j].what = "set" /\ tr[j].depth = tr[i].depth
        /\ \A k \in (i + 1)..(j - 1) : ~(tr[k].what = "set" /\ tr[k].depth = tr[i].depth)

\* the outcomes, in their order, of the calls that the call entered at
\* event i made itself: read from the cache, or stored at their end
Outcomes(tr, i) ==
    SelectSeq(SubSeq(tr, i + 1, OwnSet(tr, i) - 1),
              LAMBDA e : e.depth = tr[i].depth + 1 /\ e.what \in {"hit", "set"})

(***************************************************************************)
(* C13: whenever the alternatives of a statement are entered at an offset, *)
(* they are attempted in the order if, while, do-while, return, expression *)
(* statement, block, empty statement, each at that offset: every attempt   *)
(* but the last has failed and not fatally, the last one attempted has     *)
(* succeeded, or failed fatally, or is the seventh; and the outcome of the *)
(* statement is that of the last attempt when it is a success or a fatal   *)
(* failure, and a failure else.                                            *)
(***************************************************************************)
C13_OrderedChoice ==
    \A t \in DOMAIN threads :
        Ended(t) =>
            \A i \in DOMAIN trace[t] :
                (trace[t][i].what = "body" /\ trace[t][i].id = "stmt.alt") =>
                    LET tr   == trace[t]
                        o    == Outcomes(tr, i)
                        last == o[Len(o)].val
                        out  == tr[OwnSet(tr, i)].val
                    IN  /\ Len(o) \in 1..Len(AltOrder)
                        /\ \A k \in 1..Len(o) :
                              o[k].id = AltOrder[k] /\ o[k].loc = tr[i].loc
                        /\ \A k \in 1..(Len(o) - 1) :
                              o[k].val.k = "exc" /\ ~o[k].val.fatal
                        /\ last.k = "ok" \/ last.fatal \/ Len(o) = Len(AltOrder)
                        /\ (last.k = "ok" \/ last.fatal) => out = last
                        /\ last.k = "exc" => out.k = "exc"

\* a call has ended in which an empty statement was found after the six
\* alternatives before it had failed, and one in which "if" was the first
C13_Witness ==
    \E t \in DOMAIN threads :
        /\ Ended(t)
        /\ \E i \in DOMAIN trace[t] :
              /\ trace[t][i].what = "body" /\ trace[t][i].id = "stmt.alt"
              /\ Len(Outcomes(trace[t], i)) = Len(AltOrder)
              /\ trace[t][OwnSet(trace[t], i)].val.k = "ok"
        /\ \E i \in DOMAIN trace[t] :
              /\ trace[t][i].what = "body" /\ trace[t][i].id = "stmt.alt"
              /\ Len(Outcomes(trace[t], i)) = 1
              /\ trace[t][OwnSet(trace[t], i)].val.k = "ok"

(***************************************************************************)
(* Variable declarations at top level: type NAME ; and type NAME [INT] ;   *)
(***************************************************************************)
Types == {Branch(<<"i","n","t">>, <<Tok("int")>>),
          Branch(<<"c","h","a","r"," ","*">>, <<Tok("char"), Tok("*")>>),
          Branch(<<"i","n","t","*","*">>, <<Tok("int"), Tok("*"), Tok("*")>>)}

Sizes == {Branch(<<";">>, <<>>),
          Branch(<<"[","3","]",";">>, <<Tok("3")>>),
          Branch(<<" ","["," ","1","0"," ","]"," ",";">>, <<Tok("10")>>)}

VarDecl(ty, n, sz) == ty.text \o <<" ">> \o n \o sz.text
VarDeclToks(ty, n, sz) == Grp(<<Grp(ty.toks), Tok(Text(n))>> \o sz.toks)

\* where fundecl looks for its "(": after the name and the blanks
Boundary(ty, n, sz) == SkipBlank(VarDecl(ty, n, sz), Len(ty.text) + 1 + Len(n))

\* two declarations, the second one after a blank
TwoDecls(ty, n, sz) == VarDecl(ty, n, sz) \o <<" ">> \o VarDecl(ty, <<"b">>, sz)

DeclInputs ==
    {ToDo("program", VarDecl(ty, n, sz), TRUE) : ty \in Types, n \in Names, sz \in Sizes}
    \cup {ToDo("program", TwoDecls(ty, n, sz), TRUE) : ty \in Types, n \in Names, sz \in Sizes}
    \cup {ToDo("program", d, TRUE) : d \in {DeclF, ProgramIf, ProgramBad}}
    \cup {ToDo("stmt", text, TRUE) : text \in {StmtCall, BlockStmts}}

InitDecl == InitWith(DeclInputs)

SpecDecl == InitDecl /\ [][Next]_vars

\* in the events tr, the entries of the alternatives of decl at offset loc
DeclAt(tr, loc) ==
    {i \in DOMAIN tr : tr[i].what = "body" /\ tr[i].id = "decl" /\ tr[i].loc = loc}

(***************************************************************************)
(* C14: an alternative that has failed has consumed nothing: wherever      *)
(* alternatives are entered, each one is attempted at the offset where     *)
(* they were entered, and all but the last one attempted have failed.  At  *)
(* top level, for type NAME followed by ";" or "[INT];", fundecl is        *)
(* attempted first and fails where it looks for "(", vardecl is attempted  *)
(* next at the first character of the declaration and gives the tree of    *)
(* the declaration, which is what the program gives: so for the first      *)
(* declaration and for one that follows another.                           *)
(***************************************************************************)
C14_SoftFailure ==
    \A t \in DOMAIN threads :
        Ended(t) =>
            LET tr == trace[t]
            IN  /\ \A i \in DOMAIN tr :
                      (tr[i].what = "body" /\ tr[i].kind = "MatchFirst") =>
                          LET o == Outcomes(tr, i)
                          IN  \A k \in 1..Len(o) :
                                  /\ o[k].loc = tr[i].loc
                                  /\ k < Len(o) => o[k].val.k = "exc"
                /\ \A ty \in Types, n \in Names, sz \in Sizes :
                      LET d    == VarDecl(ty, n, sz)
                          tree == VarDeclToks(ty, n, sz)
                      IN  /\ threads[t].cur = ToDo("program", d, TRUE) =>
                                /\ threads[t].results[1].out = Ok(Len(d), <<tree>>)
                                /\ \E i \in DeclAt(tr, 0) :
                                      LET o == Outcomes(tr, i)
                                      IN  /\ Len(o) = 2
                                          /\ o[1].id = "fundecl"
                                          /\ o[1].val = Exc(Boundary(ty, n, sz), FALSE)
                                          /\ o[2].id = "vardecl" /\ o[2].loc = 0
                                          /\ o[2].val = Ok(Len(d), <<tree>>)
                          /\ threads[t].cur = ToDo("program", TwoDecls(ty, n, sz), TRUE) =>
                                /\ threads[t].results[1].out.k = "ok"
                                /\ threads[t].results[1].out.toks
                                      = <<tree, VarDeclToks(ty, <<"b">>, sz)>>
                                /\ \E i \in DeclAt(tr, Len(d)) :
                                      LET o == Outcomes(tr, i)
                                      IN  /\ Len(o) = 2
                                          /\ o[1].id = "fundecl" /\ o[1].val.k = "exc"
                                          /\ o[1].val.loc > Len(d) + 1
                                          /\ o[2].id = "vardecl" /\ o[2].loc = Len(d)
                                          /\ o[2].val.k = "ok"
                                          /\ o[2].val.toks = <<VarDeclToks(ty, <<"b">>, sz)>>

\* the parse of "char * a[3];" has ended, after fundecl had failed at "["
\* and vardecl had been attempted at the first character
C14_Witness ==
    \E t \in DOMAIN threads :
        /\ Ended(t)
        /\ threads[t].cur = ToDo("program", <<"c","h","a","r"," ","*"," ","a","[","3","]",";">>, TRUE)
        /\ threads[t].results[1].out.k = "ok"
        /\ \E i \in DeclAt(trace[t], 0) :
              /\ Len(Outcomes(trace[t], i)) = 2
              /\ Outcomes(trace[t], i)[1].val = Exc(8, FALSE)

(***************************************************************************)
(* Keywords and names: words that begin with a keyword, and keywords where *)
(* a name can stand                                                        *)
(***************************************************************************)
\* intx;
StmtIntx == <<"i","n","t","x",";">>
\* done;
StmtDone == <<"d","o","n","e",";">>
\* ifx;
StmtIfx == <<"i","f","x",";">>
\* else_;
StmtElse_ == <<"e","l","s","e","_",";">>
\* int;
StmtInt == <<"i","n","t",";">>
\* else;
StmtElse == <<"e","l","s","e",";">>
\* int int;
DeclIntInt == <<"i","n","t"," ","i","n","t",";">>
\* int if;
DeclIntIf == <<"i","n","t"," ","i","f",";">>
\* int intx;
DeclIntx == <<"i","n","t"," ","i","n","t","x",";">>
\* char*x;
DeclCharStar == <<"c","h","a","r","*","x",";">>
\* intx y;
DeclNoType == <<"i","n","t","x"," ","y",";">>
\* if(a)b;else c;
StmtIf == <<"i","f","(","a",")","b",";","e","l","s","e"," ","c",";">>
\* do x;while(a);
StmtDoWhile == <<"d","o"," ","x",";","w","h","i","l","e","(","a",")",";">>

KeywordInputs ==
    {ToDo("stmt", text, TRUE) :
        text \in {StmtIntx, StmtDone, NameReturnx, StmtIfx, StmtElse_, StmtInt, StmtElse,
                  StmtIf, StmtDoWhile, ReturnA}}
    \cup {ToDo("program", text, TRUE) :
              text \in {DeclIntInt, DeclIntIf, DeclIntx, DeclCharStar, DeclNoType, DeclX}}

InitKeyword == InitWith(KeywordInputs)

SpecKeyword == InitKeyword /\ [][Next]_vars

\* the keywords: the names of their elements and their words
KeywordIds == {"INT", "CHAR", "WHILE", "DO", "IF", "ELSE", "RETURN"}
KeywordWords == {"int", "char", "while", "do", "if", "else", "return"}

(***************************************************************************)
(* C15, as stated: a keyword matches only when the character after it is   *)
(* no character of a name; a word that begins with a keyword and goes on   *)
(* is one name ("intx;", "done;", "returnx;" are expression statements of  *)
(* one name); and a word that is a keyword is never matched as a name.     *)
(***************************************************************************)
C15_AsStated ==
    \A t \in DOMAIN threads :
        /\ \A i \in DOMAIN trace[t] :
              LET ev == trace[t][i]
              IN  (ev.what \in {"set", "hit"} /\ ev.val.k = "ok") =>
                      /\ ev.id \in KeywordIds =>
                            /\ ev.val.toks[1].v \in KeywordWords
                            /\ At(threads[t].instring, ev.val.loc) \notin NameBodyChars
                      /\ ev.id = "NAME" => ev.val.toks[1].v \notin KeywordWords
        /\ \A r \in Returned :
              /\ r.call = ToDo("stmt", StmtIntx, TRUE) => r.out.toks = <<Grp(<<Tok("intx")>>)>>
              /\ r.call = ToDo("stmt", StmtDone, TRUE) => r.out.toks = <<Grp(<<Tok("done")>>)>>
              /\ r.call = ToDo("stmt", NameReturnx, TRUE)
                    => r.out.toks = <<Grp(<<Tok("returnx")>>)>>
              /\ r.call = ToDo("program", DeclIntInt, TRUE) => r.out.k = "exc"

(***************************************************************************)
(* Comments between the tokens of a program.  A program is given by its    *)
(* tokens; its text has a blank only where two tokens would run together.  *)
(***************************************************************************)
\* int x; char *s[3];
TokensDecls ==
    <<<<"i","n","t">>, <<"x">>, <<";">>, <<"c","h","a","r">>, <<"*">>, <<"s">>, <<"[">>,
      <<"3">>, <<"]">>, <<";">>>>

\* int f(char *s){ while (*s) g(*s++); }
TokensWhile ==
    <<<<"i","n","t">>, <<"f">>, <<"(">>, <<"c","h","a","r">>, <<"*">>, <<"s">>, <<")">>,
      <<"{">>, <<"w","h","i","l","e">>, <<"(">>, <<"*">>, <<"s">>, <<")">>, <<"g">>, <<"(">>,
      <<"*">>, <<"s">>, <<"+","+">>, <<")">>, <<";">>, <<"}">>>>

\* int f(){ if (n == 0) return 1; else return - 1; }
TokensIf ==
    <<<<"i","n","t">>, <<"f">>, <<"(">>, <<")">>, <<"{">>, <<"i","f">>, <<"(">>, <<"n">>,
      <<"=","=">>, <<"0">>, <<")">>, <<"r","e","t","u","r","n">>, <<"1">>, <<";">>,
      <<"e","l","s","e">>, <<"r","e","t","u","r","n">>, <<"-">>, <<"1">>, <<";">>, <<"}">>>>

\* int f(){ a = b / *c; }
TokensDivide ==
    <<<<"i","n","t">>, <<"f">>, <<"(">>, <<")">>, <<"{">>, <<"a">>, <<"=">>, <<"b">>,
      <<"/">>, <<"*">>, <<"c">>, <<";">>, <<"}">>>>

\* int f(){ x }
TokensBad ==
    <<<<"i","n","t">>, <<"f">>, <<"(">>, <<")">>, <<"{">>, <<"x">>, <<"}">>>>

TokenLists == {TokensDecls, TokensWhile, TokensIf, TokensDivide, TokensBad}

\* /* c */
CommentText == <<"/","*"," ","c"," ","*","/">>

\* the blank between two tokens that would make one word
Glue(a, b) == IF a[Len(a)] \in NameBodyChars /\ b[1] \in NameBodyChars THEN <<" ">> ELSE <<>>

\* the text of the tokens from the k-th on, with the comment before the
\* token after the g-th (after the last token when g is their number)
RECURSIVE Render(_, _, _)
Render(toks, k, g) ==
    IF k > Len(toks) THEN <<>>
    ELSE (IF k = g + 1 THEN CommentText ELSE <<>>)
         \o toks[k]
         \o (IF k < Len(toks) THEN Glue(toks[k], toks[k + 1]) ELSE <<>>)
         \o (IF k = Len(toks) /\ g = Len(toks) THEN CommentText ELSE <<>>)
         \o Render(toks, k + 1, g)

\* the program, and the program with a comment in the gap g
Plain(toks) == Render(toks, 1, 0 - 1)
Commented(toks, g) == Render(toks, 1, g)

\* one thread parses the program and then the program with the comment
InitComment ==
    /\ threads \in UNION {{[t \in Threads |->
                                Thread(t, <<ToDo("program", Plain(toks), TRUE),
                                            ToDo("program", Commented(toks, g), TRUE)>>)] :
                             g \in 0..Len(toks)} : toks \in TokenLists}
    /\ cache = EmptyCache
    /\ trace = [t \in Threads |-> <<>>]
    /\ doc = NoDoc
    /\ web = NoWeb

SpecComment == InitComment /\ [][Next]_vars

(***************************************************************************)
(* C16, as stated: a program and the program with a comment between two    *)
(* of its tokens, before the first or after the last, have one outcome:    *)
(* the same tokens, or a failure both.                                     *)
(***************************************************************************)
C16_AsStated ==
    \A t \in DOMAIN threads :
        Len(threads[t].results) = 2 =>
            /\ threads[t].results[1].out.k = threads[t].results[2].out.k
            /\ threads[t].results[1].out.toks = threads[t].results[2].out.toks

(***************************************************************************)
(* The factorial function, on one line and on the lines main has it on    *)
(***************************************************************************)
\* int fac(int n) { if (n == 0) return 1; else return n*fac(n-1); }
FacLine ==
    <<"i","n","t"," ","f","a","c","(","i","n","t"," ","n",")"," ","{"," ","i","f"," ","(","n",
      " ","=","="," ","0",")"," ","r","e","t","u","r","n"," ","1",";"," ","e","l","s","e"," ",
      "r","e","t","u","r","n"," ","n","*","f","a","c","(","n","-","1",")",";"," ","}">>

\* the function on the lines of main, a tab for every four blanks
FacLines ==
    <<"i","n","t","\n","f","a","c","(","i","n","t"," ","n",")","\n","{","\n","\t","i","f"," ",
      "(","n"," ","=","="," ","0",")","\n","\t","\t","r","e","t","u","r","n"," ","1",";","\n",
      "\t","e","l","s","e","\n","\t","\t","r","e","t","u","r","n"," ","n","*","f","a","c","(",
      "n","-","1",")",";","\n","}","\n">>

\* int fac(int n){if(n==0)return 1;else return n*fac(n-1);}
FacDense ==
    <<"i","n","t"," ","f","a","c","(","i","n","t"," ","n",")","{","i","f","(","n","=","=","0",
      ")","r","e","t","u","r","n"," ","1",";","e","l","s","e"," ","r","e","t","u","r","n"," ",
      "n","*","f","a","c","(","n","-","1",")",";","}">>
\* int fac ( int n ) { if ( n == 0 ) return 1 ; else return n * fac ( n - 1 ) ; }
FacSpaced ==
    <<"i","n","t"," ","f","a","c"," ","("," ","i","n","t"," ","n"," ",")"," ","{"," ","i","f",
      " ","("," ","n"," ","=","="," ","0"," ",")"," ","r","e","t","u","r","n"," ","1"," ",";",
      " ","e","l","s","e"," ","r","e","t","u","r","n"," ","n"," ","*"," ","f","a","c"," ","(",
      " ","n"," ","-"," ","1"," ",")"," ",";"," ","}">>

FacInputs == {ToDo("program", text, TRUE) : text \in {FacLine, FacLines, FacDense, FacSpaced}}

InitFac == InitWith(FacInputs)

SpecFac == InitFac /\ [][Next]_vars

\* the tokens of fac: the type, the name, the arguments, the body
FacArgs == Grp(<<Grp(<<Grp(<<Tok("int")>>), Tok("n")>>)>>)
FacCondition == Grp(<<Tok("n"), Tok("=="), Tok("0")>>)
FacThen == Grp(<<Tok("return"), Tok("1")>>)
FacCall == Grp(<<Tok("fac"), Grp(<<Grp(<<Tok("n"), Tok("-"), Tok("1")>>)>>)>>)
FacElse == Grp(<<Tok("return"), Grp(<<Tok("n"), Tok("*"), FacCall>>)>>)
FacIf == Grp(<<Tok("if"), FacCondition, FacThen, Tok("else"), FacElse>>)
FacTree == Grp(<<Grp(<<Tok("int")>>), Tok("fac"), FacArgs, Grp(<<FacIf>>)>>)

(***************************************************************************)
(* C17: the factorial function is accepted as a whole program and gives    *)
(* one function declaration: type int, name fac, the one argument int n,   *)
(* and a body of one if statement with the condition n == 0, the branch    *)
(* return 1 and, after else, the return of n * fac(n - 1), where the call  *)
(* has the one argument n - 1.                                             *)
(***************************************************************************)
C17_Factorial ==
    \A r \in Returned :
        r.call \in FacInputs =>
            /\ r.out.k = "ok"
            /\ SkipBlank(ExpandTabs(r.call.text), r.out.loc) = Len(ExpandTabs(r.call.text))
            /\ r.out.toks = <<FacTree>>

\* the parse of the one-line factorial function has ended
C17_Witness ==
    \E r \in Returned : r.call = ToDo("program", FacLine, TRUE) /\ r.out.k = "ok"


(***************************************************************************)
(* Two threads that parse the same input: thread 1 parses another input,   *)
(* or the same, and then the input that thread 2 parses, at any time       *)
(* before, between or after the steps of thread 1.                         *)
(***************************************************************************)
\* int x
InputNoSemi == <<"i","n","t"," ","x">>
\* int x;;
InputTwoSemi == <<"i","n","t"," ","x",";",";">>

SameFirst == {InputX, InputY, InputXTab, InputNoSemi}
SameSecond == {InputX, InputNoSemi, InputTwoSemi}

InitSame ==
    /\ threads \in {[t \in {1, 2} |->
                        IF t = 1
                        THEN Thread(1, <<ToDo("program", ab[1], TRUE),
                                         ToDo("program", ab[2], TRUE)>>)
                        ELSE Thread(2, <<ToDo("program", ab[2], TRUE)>>)] :
                     ab \in SameFirst \X SameSecond}
    /\ cache = EmptyCache
    /\ trace = [t \in {1, 2} |-> <<>>]
    /\ doc = NoDoc
    /\ web = NoWeb

SpecSame == InitSame /\ [][Next]_vars

(***************************************************************************)
(* C18: two calls of parse_string with the same rule, text and parseAll    *)
(* return the same outcome, the same tokens or the same exception at the   *)
(* same offset, whatever was parsed before them and whatever another       *)
(* thread parses meanwhile.                                                *)
(***************************************************************************)
C18_Deterministic ==
    \A r1, r2 \in Returned : r1.call = r2.call => r1.out = r2.out

\* both threads have made all their calls: thread 1 parsed another text
\* first, and its second call and the call of thread 2, on the same text,
\* have both ended with an exception
C18_Witness ==
    /\ \A t \in DOMAIN threads : Ended(t) /\ threads[t].todo = <<>>
    /\ Len(threads[1].results) = 2
    /\ threads[1].results[1].call # threads[1].results[2].call
    /\ threads[1].results[2].call = threads[2].results[1].call
    /\ threads[1].results[2].out.k = "exc"
    /\ threads[2].results[1].out.k = "exc"


(***************************************************************************)
(* Function bodies: int f(){ item item ... } where an item is the text of  *)
(* a variable declaration or of a statement                                *)
(***************************************************************************)
\* an item: its text and whether it is a variable declaration
Item(text, isDecl) == [text |-> text, decl |-> isDecl]

\* int y;
ItemIntY == <<"i","n","t"," ","y",";">>
\* int *y;
ItemIntStarY == <<"i","n","t"," ","*","y",";">>
\* char a[2];
ItemCharArray == <<"c","h","a","r"," ","a","[","2","]",";">>
\* x;
ItemX == <<"x",";">>
\* ;
ItemEmpty == <<";">>
\* return 1;
ItemReturn == <<"r","e","t","u","r","n"," ","1",";">>
\* int f(){
BodyOpen == <<"i","n","t"," ","f","(",")","{">>
\* }
BodyClose == <<"}">>

BodyDecls == {Item(ItemIntY, TRUE), Item(ItemIntStarY, TRUE), Item(ItemCharArray, TRUE)}
BodyStmts == {Item(ItemX, FALSE), Item(ItemEmpty, FALSE), Item(ItemReturn, FALSE)}
BodyItems == BodyDecls \cup BodyStmts

MaxItems == 2

\* the bodies: up to MaxItems items in any order
Bodies == UNION {[1..n -> BodyItems] : n \in 0..MaxItems}

\* the text of the items, one blank before each
RECURSIVE ItemsText(_)
ItemsText(items) ==
    IF items = <<>> THEN <<>> ELSE <<" ">> \o Head(items).text \o ItemsText(Tail(items))

\* the function with the body
BodyText(items) == BodyOpen \o ItemsText(items) \o <<" ">> \o BodyClose

BodyInputs == {ToDo("program", BodyText(items), TRUE) : items \in Bodies}

InitBody == InitWith(BodyInputs)

SpecBody == InitBody /\ [][Next]_vars

\* no variable declaration stands after a statement
DeclsFirst(items) ==
    \A i, j \in DOMAIN items : (i < j /\ items[j].decl) => items[i].decl

(***************************************************************************)
(* C19, as stated: a function is accepted only if its body is a run of     *)
(* variable declarations followed by a run of statements; a body with a    *)
(* variable declaration after a statement is rejected.                     *)
(***************************************************************************)
C19_AsStated ==
    \A items \in Bodies :
        \A r \in Returned :
            r.call = ToDo("program", BodyText(items), TRUE) =>
                (r.out.k = "ok" <=> DeclsFirst(items))


(***************************************************************************)
(* Inputs in which the rules recur: nested parentheses, calls, subscripts, *)
(* blocks and statements, repetitions of several items, and inputs that    *)
(* end in the middle of them                                               *)
(***************************************************************************)
\* int f(int a,int b){;{;}}
RecNested ==
    <<"i","n","t"," ","f","(","i","n","t"," ","a",",","i","n","t"," ","b",")","{",";","{",";",
      "}","}">>
\* int a;char b[2];int*c;int g(){}
RecDecls ==
    <<"i","n","t"," ","a",";","c","h","a","r"," ","b","[","2","]",";","i","n","t","*","c",";",
      "i","n","t"," ","g","(",")","{","}">>
\* int f(){((x;}
RecOpenParen == <<"i","n","t"," ","f","(",")","{","(","(","x",";","}">>
\* int f(int a,){}
RecArgComma == <<"i","n","t"," ","f","(","i","n","t"," ","a",",",")","{","}">>
\* int x;int y;int
RecNoName == <<"i","n","t"," ","x",";","i","n","t"," ","y",";","i","n","t">>
\* the empty text
RecEmpty == <<>>
\* ((1))
RecParens == <<"(","(","1",")",")">>
\* f(g(1),2,3)
RecCalls == <<"f","(","g","(","1",")",",","2",",","3",")">>
\* a[b[1]]
RecSubscript == <<"a","[","b","[","1","]","]">>
\* -(-x)
RecUnary == <<"-","(","-","x",")">>
\* !*x++ = -y
RecMixed == <<"!","*","x","+","+"," ","="," ","-","y">>
\* (((x
RecOpen == <<"(","(","(","x">>
\* f(,)
RecComma == <<"f","(",",",")">>
\* +++
RecOperators == <<"+","+","+">>
\* {{;}{}}
RecBlocks == <<"{","{",";","}","{","}","}">>
\* do{}while(1);
RecDo == <<"d","o","{","}","w","h","i","l","e","(","1",")",";">>
\* if(a)if(b);else;
RecIfs == <<"i","f","(","a",")","i","f","(","b",")",";","e","l","s","e",";">>
\* while(x)while(y)z;
RecWhile == <<"w","h","i","l","e","(","x",")","w","h","i","l","e","(","y",")","z",";">>
\* {{{;
RecOpenBlock == <<"{","{","{",";">>
\* return(f(1))+2;
RecReturn == <<"r","e","t","u","r","n","(","f","(","1",")",")","+","2",";">>

RecInputs ==
    {ToDo("program", text, TRUE) : text \in {RecNested, RecDecls, RecOpenParen, RecArgComma, RecNoName, RecEmpty}}
    \cup {ToDo("expr", text, TRUE) : text \in {RecParens, RecCalls, RecSubscript, RecUnary, RecMixed, RecOpen, RecComma, RecOperators}}
    \cup {ToDo("stmt", text, TRUE) : text \in {RecBlocks, RecDo, RecIfs, RecWhile, RecOpenBlock, RecReturn}}

InitRec == InitWith(RecInputs)

SpecRec == InitRec /\ [][Next]_vars

\* the threads run: a call that can be begun is begun, and a call in
\* progress makes its next steps
FairSpecRec == SpecRec /\ \A t \in Threads : WF_vars(ParseString(t) \/ Step(t))

\* the event k of the trace is inside the call that the event i entered
InsideCall(tr, i, k) == i < k /\ \A j \in (i + 1)..k : tr[j].depth > tr[i].depth

\* the entries of _parseNoCache in the trace
Entries(tr) == {i \in DOMAIN tr : tr[i].what = "body"}

\* the outcomes that the call entered at i has got from the expressions it
\* called itself
ChildOutcomes(tr, i) ==
    {k \in DOMAIN tr : /\ tr[k].what \in {"hit", "set"} /\ tr[k].depth = tr[i].depth + 1
                       /\ InsideCall(tr, i, k)}

\* no element is entered again, at the same place of the input, inside its
\* own call
NoReentry(t) ==
    LET tr == trace[t]
        s  == threads[t].instring
    IN  \A i \in Entries(tr) :
            \A k \in {k \in Entries(tr) : k > i /\ tr[k].id = tr[i].id} :
                InsideCall(tr, i, k) => SkipBlank(s, tr[k].loc) > SkipBlank(s, tr[i].loc)

\* every match that a repetition gets from its expression has consumed input
IterationsConsume(t) ==
    LET tr == trace[t]
        s  == threads[t].instring
    IN  \A i \in {i \in Entries(tr) : tr[i].kind \in {"ZeroOrMore", "OneOrMore"}} :
            \A k \in ChildOutcomes(tr, i) :
                tr[k].val.k = "ok" =>
                    /\ tr[k].val.loc > SkipBlank(s, tr[k].loc)
                    /\ tr[k].val.loc > tr[i].loc

\* every call that was to be made has returned
AllReturned == \A t \in DOMAIN threads : threads[t].pc = "idle" /\ threads[t].todo = <<>>

(***************************************************************************)
(* C20: no element is entered again at the same place of the input inside  *)
(* its own call, every match of the expression of a repetition consumes    *)
(* input, and every call of parse_string returns, with tokens or with an   *)
(* exception.                                                              *)
(***************************************************************************)
C20_Terminates ==
    /\ [](\A t \in DOMAIN threads : NoReentry(t) /\ IterationsConsume(t))
    /\ <>(AllReturned /\ \A t \in DOMAIN threads :
                             Len(threads[t].results) = 1
                             /\ threads[t].results[1].out.k \in {"ok", "exc"})

\* a call has returned in which expr was entered inside expr, further on in
\* the input, and in which a repetition has matched its expression twice
C20_Witness ==
    /\ AllReturned
    /\ \E t \in DOMAIN threads :
          LET tr == trace[t]
          IN  /\ \E i, k \in Entries(tr) : tr[i].id = "expr" /\ tr[k].id = "expr" /\ InsideCall(tr, i, k)
              /\ \E i \in Entries(tr) :
                    /\ tr[i].kind = "ZeroOrMore"
                    /\ \E k1, k2 \in ChildOutcomes(tr, i) :
                          k1 < k2 /\ tr[k1].val.k = "ok" /\ tr[k2].val.k = "ok"


(***************************************************************************)
(* text/parsing/grammar.py: TextUnicode.normalize_newlines.  A text is the *)
(* sequence of its characters; BOM is the character U+FEFF.                *)
(***************************************************************************)
BOM == "\\ufeff"

\* str.replace(old, new): the occurrences of old from left to right, none
\* overlapping another
RECURSIVE StrReplace(_, _, _)
StrReplace(s, old, new) ==
    IF Len(s) < Len(old) THEN s
    ELSE IF SubSeq(s, 1, Len(old)) = old
    THEN new \o StrReplace(SubSeq(s, Len(old) + 1, Len(s)), old, new)
    ELSE <<Head(s)>> \o StrReplace(Tail(s), old, new)

\* re.sub(r"(?<!\n)\n(?!\n)", " ", text) with a newline before it allowed
SubSingleNewlines_NoLookbehind(s) ==
    [i \in 1..Len(s) |->
        IF s[i] = "\n" /\ (i = Len(s) \/ s[i + 1] # "\n") THEN " " ELSE s[i]]

\* re.sub(r"(?<!\n)\n(?!\n)", " ", text): a newline with no newline before
\* it and none after it becomes a space
SubSingleNewlines(s) ==
    [i \in 1..Len(s) |->
        IF s[i] = "\n" /\ (i = 1 \/ s[i - 1] # "\n") /\ (i = Len(s) \/ s[i + 1] # "\n")
        THEN " " ELSE s[i]]

\* str.lstrip(chars): the leading characters that are in chars are dropped
RECURSIVE LStrip(_, _)
LStrip(s, chars) == IF s # <<>> /\ Head(s) \in chars THEN LStrip(Tail(s), chars) ELSE s

\* text.replace("\r\n", "\n").replace("\r", "\n")
NormalizeCR(s) == StrReplace(StrReplace(s, <<"\r", "\n">>, <<"\n">>), <<"\r">>, <<"\n">>)

normalize_newlines(s) == LStrip(SubSingleNewlines(NormalizeCR(s)), {BOM})

\* the texts of up to MaxText characters
MaxText == 4
TextChars == {"a", " ", "\n", "\r", BOM}
Texts == UNION {[1..n -> TextChars] : n \in 0..MaxText}

\* a text to be normalized
InitNewlines ==
    /\ threads = <<>>
    /\ cache = EmptyCache
    /\ trace = <<>>
    /\ doc \in {[pc |-> "text", text |-> s, outs |-> <<>>] : s \in Texts}
    /\ web = NoWeb

\* text = normalize_newlines(text): of the text first, then of what the
\* call before has returned
NormalizeNewlines ==
    /\ doc.pc = "text"
    /\ Len(doc.outs) < 2
    /\ doc' = [doc EXCEPT !.outs = Append(@, normalize_newlines(IF doc.outs = <<>> THEN doc.text
                                                                 ELSE doc.outs[Len(doc.outs)]))]
    /\ UNCHANGED <<threads, cache, trace, web>>

NextNewlines == NormalizeNewlines

SpecNewlines == InitNewlines /\ [][NextNewlines]_vars

\* the newline at i of s has a newline next to it
InRun(s, i) == (i > 1 /\ s[i - 1] = "\n") \/ (i < Len(s) /\ s[i + 1] = "\n")

\* the number of characters that s begins with and that are c
RECURSIVE Leading(_, _)
Leading(s, c) == IF s # <<>> /\ Head(s) = c THEN 1 + Leading(Tail(s), c) ELSE 0

(***************************************************************************)
(* C21: what normalize_newlines returns has no carriage return, no newline *)
(* without a newline next to it, and no byte-order mark at its start; it   *)
(* is the text with CRLF and CR made newlines, in which every newline      *)
(* alone became a space and every newline in a run stayed, less the        *)
(* byte-order marks at the start; and normalize_newlines leaves it as it   *)
(* is.                                                                     *)
(***************************************************************************)
C21_Normalized ==
    doc.pc = "text" /\ doc.outs # <<>> =>
        LET out == doc.outs[1]
            n   == NormalizeCR(doc.text)
            k   == Len(n) - Len(out)
        IN  /\ \A i \in DOMAIN out : out[i] # "\r"
            /\ \A i \in DOMAIN out : out[i] = "\n" => InRun(out, i)
            /\ out = <<>> \/ out[1] # BOM
            /\ k = Leading(n, BOM)
            /\ \A i \in DOMAIN out :
                  out[i] = IF n[i + k] # "\n" THEN n[i + k]
                           ELSE IF InRun(n, i + k) THEN "\n" ELSE " "
            /\ Len(doc.outs) = 2 => doc.outs[2] = out

\* a text with a CRLF alone and a run of newlines has been normalized twice
C21_Witness ==
    /\ doc.pc = "text"
    /\ doc.text = <<"\r", "\n", "\n", "\n">>
    /\ Len(doc.outs) = 2


(***************************************************************************)
(* text/parsing/parser.py: TextParser.get_quotes and set_quotes, with the  *)
(* pattern QUOTE of text/parsing/grammar.py                                *)
(***************************************************************************)
\* str(index)
RECURSIVE DecimalChars(_)
DecimalChars(i) ==
    IF i < 10 THEN <<ToString(i)>> ELSE DecimalChars(i \div 10) \o <<ToString(i % 10)>>

\* f"__QUOTE_{index}__"
Placeholder(i) == <<"_","_","Q","U","O","T","E","_">> \o DecimalChars(i) \o <<"_","_">>

\* (?:(?=(\\?))\2.)*?\1 from the offset p on, for the opening quote q: the
\* closing quote is tried first; if the next character is a backslash, it
\* and the character after it are taken, else one character; "." is no
\* newline.  The offset after the closing quote, or -1
RECURSIVE QuoteEnd(_, _, _)
QuoteEnd(s, q, p) ==
    IF p >= Len(s) THEN -1
    ELSE IF s[p + 1] = q THEN p + 1
    ELSE IF s[p + 1] = "\\"
    THEN IF p + 1 < Len(s) /\ s[p + 2] # "\n" THEN QuoteEnd(s, q, p + 2) ELSE -1
    ELSE IF s[p + 1] # "\n" THEN QuoteEnd(s, q, p + 1) ELSE -1

\* QUOTE matched at the offset p: (['\"]) and the rest
QuoteMatch(s, p) ==
    IF p < Len(s) /\ s[p + 1] \in {"'", "\""} THEN QuoteEnd(s, s[p + 1], p + 1) ELSE -1

\* self.pattern("quote").sub(replace_quote, text) from the offset p on: the
\* text with a placeholder for every match, and the matches
RECURSIVE SubQuotes(_, _, _)
SubQuotes(s, p, quotes) ==
    IF p >= Len(s) THEN [text |-> <<>>, quotes |-> quotes]
    ELSE LET e == QuoteMatch(s, p)
         IN  IF e >= 0
             THEN LET r == SubQuotes(s, e, Append(quotes, SubSeq(s, p + 1, e)))
                  IN  [r EXCEPT !.text = Placeholder(Len(quotes)) \o @]
             ELSE LET r == SubQuotes(s, p + 1, quotes)
                  IN  [r EXCEPT !.text = <<s[p + 1]>> \o @]

get_quotes(s) == SubQuotes(s, 0, <<>>)

\* set_quotes: for i, quote in enumerate(quotes), from the i-th on
RECURSIVE SetFrom(_, _, _)
SetFrom(sentences, quotes, i) ==
    IF i >= Len(quotes) THEN sentences
    ELSE SetFrom([k \in DOMAIN sentences |->
                     StrReplace(sentences[k], Placeholder(i), quotes[i + 1])],
                 quotes, i + 1)

set_quotes(sentences, quotes) == SetFrom(sentences, quotes, 0)

\* the texts of up to MaxPieces pieces: a character, or a placeholder
MaxPieces == 4
Pieces == {<<"\"">>, <<"'">>, <<"a">>, <<" ">>, <<"\\">>, <<"\n">>, Placeholder(0), Placeholder(1)}

RECURSIVE Concat(_)
Concat(ps) == IF ps = <<>> THEN <<>> ELSE Head(ps) \o Concat(Tail(ps))

QuoteTexts == {Concat(ps) : ps \in UNION {[1..n -> Pieces] : n \in 0..MaxPieces}}

\* a text of which the quotes are to be extracted
InitQuotes ==
    /\ threads = <<>>
    /\ cache = EmptyCache
    /\ trace = <<>>
    /\ doc \in {[pc |-> "quotes", text |-> s, masked |-> <<>>, quotes |-> <<>>, out |-> <<>>] :
                    s \in QuoteTexts}
    /\ web = NoWeb

\* text, quotes = self.get_quotes(text)
GetQuotes ==
    /\ doc.pc = "quotes"
    /\ doc' = [doc EXCEPT !.pc = "extracted", !.masked = get_quotes(doc.text).text,
                          !.quotes = get_quotes(doc.text).quotes]
    /\ UNCHANGED <<threads, cache, trace, web>>

\* self.set_quotes([text], quotes)
SetQuotes ==
    /\ doc.pc = "extracted"
    /\ doc' = [doc EXCEPT !.pc = "restored", !.out = set_quotes(<<doc.masked>>, doc.quotes)]
    /\ UNCHANGED <<threads, cache, trace, web>>

NextQuotes == GetQuotes \/ SetQuotes

SpecQuotes == InitQuotes /\ [][NextQuotes]_vars

(***************************************************************************)
(* C22, as stated: set_quotes of the text and the quotes that get_quotes   *)
(* returns gives the original text back, for every text.                   *)
(***************************************************************************)
C22_AsStated ==
    doc.pc = "restored" => doc.out = <<doc.text>>


(***************************************************************************)
(* The grammar with and without enablePackrat: the thread parses an input  *)
(* as c.py does, and then the same input with _parse = _parseNoCache,      *)
(* which reads and stores no outcome.                                      *)
(***************************************************************************)
\* x
PlainName == <<"x">>
\* a+1
PlainSum == <<"a","+","1">>
\* -x
PlainMinus == <<"-","x">>
\* f(,)
PlainNoArgs == <<"f","(",",",")">>
\* a+*
PlainTwoOps == <<"a","+","*">>
\* if(a);else;
PlainIf == <<"i","f","(","a",")",";","e","l","s","e",";">>
\* if a;
PlainIfName == <<"i","f"," ","a",";">>

PlainInputs ==
    {ToDo("program", text, TRUE) :
        text \in {DeclX, DeclF, ArrayTail, IfTail, ReturnTail, DoTail, RecArgComma, RecNoName}}
    \cup {ToDo("expr", text, all) :
              text \in {PlainName, PlainSum, PlainMinus, PlainNoArgs, PlainTwoOps}, all \in BOOLEAN}
    \cup {ToDo("stmt", text, TRUE) :
              text \in {AssignStmt, BlockStmts, EmptyStmt, PlainIf, PlainIfName, RecOpenBlock}}

\* the thread makes two calls for one input
InitPlain ==
    /\ threads \in {[t \in Threads |-> Thread(t, <<d, d>>)] : d \in PlainInputs}
    /\ cache = EmptyCache
    /\ trace = [t \in Threads |-> <<>>]
    /\ doc = NoDoc
    /\ web = NoWeb

\* the second call of a thread
Second(t) == threads[t].call[2] = 2

\* the thread runs on with _parseNoCache: up to the return of the outermost
\* _parse, with no cache
StepNoCache(t) ==
    LET th == threads[t]
        M  == Run(MicroStep([th |-> th, cache |-> [on |-> FALSE, items |-> <<>>], ev |-> <<>>]),
                  StepLimit * StepLimit)
    IN  /\ th.pc = "run"
        /\ threads' = [threads EXCEPT ![t] = M.th]
        /\ trace' = [trace EXCEPT ![t] = @ \o M.ev]
        /\ UNCHANGED <<cache, doc, web>>

\* the first call is made with the packrat cache, the second without
NextPlain ==
    \E t \in DOMAIN threads :
        \/ ParseString(t)
        \/ ~Second(t) /\ Step(t)
        \/ Second(t) /\ StepNoCache(t)

SpecPlain == InitPlain /\ [][NextPlain]_vars

(***************************************************************************)
(* C23: the parse with the packrat cache and the parse of the same input   *)
(* without it return the same outcome: the same tokens and end offset, or  *)
(* the same exception, fatal or not, at the same offset; the parse without *)
(* the cache reads and stores no outcome.                                  *)
(***************************************************************************)
C23_Transparent ==
    \A t \in DOMAIN threads :
        /\ Second(t) => \A i \in DOMAIN trace[t] : trace[t][i].what = "body"
        /\ Len(threads[t].results) = 2 =>
              /\ threads[t].results[1].call = threads[t].results[2].call
              /\ threads[t].results[1].out = threads[t].results[2].out


\* both calls have ended with the same fatal exception, and the call without
\* the cache has entered an element twice at one offset, where the call
\* with the cache is given the outcome stored the first time
C23_Witness ==
    \E t \in DOMAIN threads :
        /\ Len(threads[t].results) = 2
        /\ threads[t].results[1].out.k = "exc"
        /\ threads[t].results[1].out.fatal
        /\ threads[t].results[2].out.fatal
        /\ \E i, j \in DOMAIN trace[t] : i < j /\ SameKey(trace[t][i], trace[t][j])


(***************************************************************************)
(* text_extraction/cli/web.py: WebsiteManager.get and, inside it,          *)
(* WebsiteFetcher.fetch_content.  web.files are the two files of the cache *)
(* that _get_cache_paths derives from the url, None where there is no      *)
(* file; web.page is what the site serves and web.fail where the browser   *)
(* driver fails; web.log are the fetches, conversions and writes made;     *)
(* web.result is what the call returned, or the exception it raised.       *)
(***************************************************************************)
\* Python's None, which is no text
None == "<None>"

\* a call that has given nothing back yet
Pending == [k |-> "pending", v |-> None]

Urls == {"http://a.org/x.html", "http://b.org/"}
Pages == {"<p>one</p>", "<p>two</p>"}
Messages == {"no such driver", "timeout"}

\* where the driver raises, and with which message
Failures ==
    {[at |-> "none", msg |-> ""]}
    \cup {[at |-> at, msg |-> m] : at \in {"Chrome", "get", "page_source"}, m \in Messages}

\* h.handle(html).strip(): html2text is not part of the repository; the
\* markdown of a page is a text that the page determines
convert_html_to_markdown(html) == "md:" \o html

\* f"Error fetching content from {url}: {str(e)}."
ErrorText(url, msg) == "Error fetching content from " \o url \o ": " \o msg \o "."

Returned_(value) == [k |-> "return", v |-> value]
Raised(exc) == [k |-> "raise", v |-> exc]

\* a call in progress: of WebsiteManager.get when fn = "get", from its first
\* statement; of WebsiteFetcher.fetch_content alone when fn = "fetch_content"
WebCall(fn, url, page, fail, html, markdown) ==
    [fn |-> fn, pc |-> IF fn = "get" THEN "get" ELSE "Chrome", url |-> url, page |-> page,
     fail |-> fail,
     files |-> [html |-> html, markdown |-> markdown],
     cached |-> markdown,
     driver |-> "unbound", e |-> "", ret |-> Pending,
     html_content |-> None, markdown_content |-> None,
     log |-> <<>>, result |-> Pending]

\* line 115: markdown_content = self.cache.read(markdown_path); nothing
\* looks at it before line 119 assigns it again
ReadMarkdown ==
    /\ web.pc = "get"
    /\ web' = [web EXCEPT !.markdown_content = web.files.markdown, !.pc = "_fetch_html_content"]

\* lines 162-163: html_content = self.cache.read(path), and the fetch if
\* there is no file
ReadHtml ==
    /\ web.pc = "_fetch_html_content"
    /\ web' = [web EXCEPT !.html_content = web.files.html,
                          !.pc = IF web.files.html = None THEN "Chrome" ELSE "convert"]

\* lines 59-61: driver = webdriver.Chrome(options=self.options), inside try
CreateDriver ==
    /\ web.pc = "Chrome"
    /\ web' = IF web.fail.at = "Chrome"
              THEN [web EXCEPT !.e = web.fail.msg, !.pc = "except",
                               !.log = Append(@, "fetch")]
              ELSE [web EXCEPT !.driver = "open", !.pc = "driver.get",
                               !.log = Append(@, "fetch")]

\* line 63: driver.get(url)
Navigate ==
    /\ web.pc = "driver.get"
    /\ web' = IF web.fail.at = "get"
              THEN [web EXCEPT !.e = web.fail.msg, !.pc = "except"]
              ELSE [web EXCEPT !.pc = "page_source"]

\* lines 65-66: html_content = driver.page_source; return html_content
PageSource ==
    /\ web.pc = "page_source"
    /\ web' = IF web.fail.at = "page_source"
              THEN [web EXCEPT !.e = web.fail.msg, !.pc = "except"]
              ELSE [web EXCEPT !.ret = Returned_(web.page), !.pc = "finally"]

\* lines 67-69: except Exception as e: return the message
Except ==
    /\ web.pc = "except"
    /\ web' = [web EXCEPT !.ret = Returned_(ErrorText(web.url, web.e)), !.pc = "finally"]

\* what fetch_content gives its caller: get goes on or is left by the
\* exception, a call of fetch_content alone has ended
FetchEnds(w, out) ==
    IF w.fn = "fetch_content" \/ out.k = "raise"
    THEN [w EXCEPT !.result = out, !.pc = "done"]
    ELSE [w EXCEPT !.html_content = out.v, !.pc = "write_html"]

\* lines 70-72: finally: driver.quit().  If Chrome raised, driver is not
\* bound, and the UnboundLocalError takes the place of the return
Finally ==
    /\ web.pc = "finally"
    /\ web' = IF web.driver = "unbound"
              THEN FetchEnds(web, Raised("UnboundLocalError"))
              ELSE FetchEnds([web EXCEPT !.driver = "quit"], web.ret)

\* line 167: self.cache.write(path, html_content)
WriteHtml ==
    /\ web.pc = "write_html"
    /\ web' = [web EXCEPT !.files.html = web.html_content, !.log = Append(@, "write_html"),
                          !.pc = "convert"]

\* lines 119-121: markdown_content = self.fetcher.convert_html_to_markdown(...)
Convert ==
    /\ web.pc = "convert"
    /\ web' = [web EXCEPT !.markdown_content = convert_html_to_markdown(web.html_content),
                          !.log = Append(@, "convert"), !.pc = "write_markdown"]

\* lines 122-123: self._cache_markdown(markdown_path, markdown_content) and
\* the return
WriteMarkdown ==
    /\ web.pc = "write_markdown"
    /\ web' = [web EXCEPT !.files.markdown = web.markdown_content,
                          !.log = Append(@, "write_markdown"),
                          !.result = Returned_(web.markdown_content), !.pc = "done"]

NextWeb ==
    /\ \/ ReadMarkdown \/ ReadHtml \/ CreateDriver \/ Navigate \/ PageSource \/ Except
       \/ Finally \/ WriteHtml \/ Convert \/ WriteMarkdown
    /\ UNCHANGED <<threads, cache, trace, doc>>

\* what the cache may hold for the url: nothing, the page as it is or as it
\* was, and a markdown of it, or one written by hand
HtmlFiles == {None} \cup Pages
MarkdownFiles == {None, "# mine"} \cup {convert_html_to_markdown(p) : p \in Pages}

InitWeb(calls) ==
    /\ threads = <<>>
    /\ cache = EmptyCache
    /\ trace = <<>>
    /\ doc = NoDoc
    /\ web \in calls

\* a call of get(url)
InitGet ==
    InitWeb({WebCall("get", u, p, f, h, m) :
                u \in Urls, p \in Pages, f \in Failures, h \in HtmlFiles, m \in MarkdownFiles})

SpecGet == InitGet /\ [][NextWeb]_vars

\* the operations of the log that the claim excludes
Work == {"fetch", "convert", "write_html", "write_markdown"}

(***************************************************************************)
(* C24, as stated: when the markdown cache has an entry for the url, get   *)
(* returns that content and fetches no page, converts nothing and writes   *)
(* no file; the page is fetched only if the cache has no entry.            *)
(***************************************************************************)
C24_AsStated ==
    web.fn = "get" =>
        /\ web.cached # None =>
              /\ \A i \in DOMAIN web.log : web.log[i] \notin Work
              /\ web.pc = "done" => web.result = Returned_(web.cached)
        /\ (\E i \in DOMAIN web.log : web.log[i] = "fetch") => web.cached = None


\* a call of fetch_content(url) alone
InitFetch ==
    InitWeb({WebCall("fetch_content", u, p, f, None, None) :
                u \in Urls, p \in Pages, f \in Failures})

NextFetch ==
    /\ CreateDriver \/ Navigate \/ PageSource \/ Except \/ Finally
    /\ UNCHANGED <<threads, cache, trace, doc>>

SpecFetch == InitFetch /\ [][NextFetch]_vars

(***************************************************************************)
(* C25, as stated: fetch_content raises nothing; when the driver fails at  *)
(* its creation, at the navigation or at the page source, fetch_content    *)
(* returns "Error fetching content from <url>: <message>."; and a driver   *)
(* that was created is closed when fetch_content ends.                     *)
(***************************************************************************)
C25_AsStated ==
    web.fn = "fetch_content" /\ web.pc = "done" =>
        /\ web.result.k = "return"
        /\ web.fail.at # "none" => web.result.v = ErrorText(web.url, web.fail.msg)
        /\ web.driver # "open"


(***************************************************************************)
(* The suffix of an expression: an operand, one subscript or call after    *)
(* it, and what may be written after that                                  *)
(***************************************************************************)
NameA   == Branch(<<"a">>, <<Tok("a")>>)
CallArg == Branch(<<"(","1",")">>, <<Grp(<<Tok("1")>>)>>)

\* a, 1, f(1), (a)
SuffixOperands ==
    {NameA,
     Branch(<<"1">>, <<Tok("1")>>),
     Branch(<<"f","(","1",")">>, <<Grp(<<Tok("f"), Grp(<<Tok("1")>>)>>)>>),
     Branch(<<"(","a",")">>, <<Tok("a")>>)}

\* [0], [i], (1)
Suffixes ==
    {Branch(<<"[","0","]">>, <<Tok("0")>>),
     Branch(<<"[","i","]">>, <<Tok("i")>>),
     CallArg}

\* a(1) is the call of the name a, an operand; every other pair is an
\* operand with a suffix
Suffixed == (SuffixOperands \X Suffixes) \ {<<NameA, CallArg>>}

\* = 5, + 1, ++, --, * 2, [1], (2)
Continuations ==
    {<<" ","="," ","5">>, <<" ","+"," ","1">>, <<"+","+">>, <<"-","-">>,
     <<" ","*"," ","2">>, <<"[","1","]">>, <<"(","2",")">>}

WithSuffix(p) == p[1].text \o p[2].text
SuffixToks(p) == p[1].toks \o p[2].toks
Parenthesized(text) == <<"(">> \o text \o <<")">>
OnePlus(text) == <<"1"," ","+"," ">> \o text
Semi == <<";">>

SuffixInputs ==
    {ToDo("stmt", WithSuffix(p) \o Semi, TRUE) : p \in Suffixed}
    \cup {ToDo("stmt", WithSuffix(p) \o c \o Semi, TRUE) : p \in Suffixed, c \in Continuations}
    \cup {ToDo("expr", WithSuffix(p) \o c, FALSE) : p \in Suffixed, c \in Continuations}
    \cup {ToDo("stmt", Parenthesized(WithSuffix(p)) \o Semi, TRUE) : p \in Suffixed}
    \cup {ToDo("stmt", OnePlus(WithSuffix(p)) \o Semi, TRUE) : p \in Suffixed}

InitSuffix == InitWith(SuffixInputs)

SpecSuffix == InitSuffix /\ [][Next]_vars

ReservedWords ==
    {<<"i","n","t">>, <<"c","h","a","r">>, <<"w","h","i","l","e">>, <<"d","o">>,
     <<"i","f">>, <<"e","l","s","e">>, <<"r","e","t","u","r","n">>}

\* the words that begin a statement of their own: stmt tries ifstmt,
\* whilestmt, dowhilestmt and returnstmt before the expression statement
StatementWords == {<<"w","h","i","l","e">>, <<"d","o">>, <<"i","f">>, <<"r","e","t","u","r","n">>}

TypeWords == {<<"i","n","t">>, <<"c","h","a","r">>}

\* T w;   T w(){}   int f(int w){}   x = w;   w;   w = 1;
DeclOf(T, w)     == T \o Sp \o w \o Semi
FunctionOf(T, w) == T \o Sp \o w \o <<"(",")","{","}">>
ArgOf(w)         == <<"i","n","t"," ","f","(","i","n","t"," ">> \o w \o <<")","{","}">>
AssignFrom(w)    == <<"x"," ","="," ">> \o w \o Semi
AssignTo(w)      == w \o <<" ","="," ","1">> \o Semi

ReservedInputs ==
    {ToDo("program", DeclOf(T, w), TRUE) : T \in TypeWords, w \in ReservedWords}
    \cup {ToDo("program", FunctionOf(T, w), TRUE) : T \in TypeWords, w \in ReservedWords}
    \cup {ToDo("program", ArgOf(w), TRUE) : w \in ReservedWords}
    \cup {ToDo("stmt", AssignFrom(w), TRUE) : w \in ReservedWords}
    \cup {ToDo("stmt", w \o Semi, TRUE) : w \in ReservedWords}
    \cup {ToDo("stmt", AssignTo(w), TRUE) : w \in ReservedWords}

InitReserved == InitWith(ReservedInputs)

SpecReserved == InitReserved /\ [][Next]_vars

(***************************************************************************)
(* C27: NAME takes the reserved words.  For each of int, char, while, do,  *)
(* if, else, return as w: "T w;" declares the variable w, "T w(){}" the    *)
(* function w, "int f(int w){}" the argument w, and "x = w;" assigns the   *)
(* name w.  At the start of a statement, where if, while, do and return    *)
(* are tried first, "w;" and "w = 1;" are statements of the name w for     *)
(* int, char and else, and are rejected for the other four.                *)
(***************************************************************************)
C27_NameTakesKeywords ==
    \A r \in Returned, w \in ReservedWords :
        /\ \A T \in TypeWords :
              /\ r.call = ToDo("program", DeclOf(T, w), TRUE)
                    => /\ r.out.k = "ok"
                       /\ r.out.toks = <<Grp(<<Grp(<<Tok(Text(T))>>), Tok(Text(w))>>)>>
              /\ r.call = ToDo("program", FunctionOf(T, w), TRUE)
                    => /\ r.out.k = "ok"
                       /\ r.out.toks = <<Grp(<<Grp(<<Tok(Text(T))>>), Tok(Text(w)), Grp(<<>>)>>)>>
        /\ r.call = ToDo("program", ArgOf(w), TRUE)
              => /\ r.out.k = "ok"
                 /\ r.out.toks =
                       <<Grp(<<Grp(<<Tok("int")>>), Tok("f"),
                               Grp(<<Grp(<<Grp(<<Tok("int")>>), Tok(Text(w))>>)>>),
                               Grp(<<>>)>>)>>
        /\ r.call = ToDo("stmt", AssignFrom(w), TRUE)
              => /\ r.out.k = "ok"
                 /\ r.out.toks = <<Grp(<<Grp(<<Tok("x"), Tok("="), Tok(Text(w))>>)>>)>>
        /\ r.call = ToDo("stmt", w \o Semi, TRUE)
              => IF w \in StatementWords THEN r.out.k = "exc" /\ r.out.fatal
                 ELSE r.out.k = "ok" /\ r.out.toks = <<Grp(<<Tok(Text(w))>>)>>
        /\ r.call = ToDo("stmt", AssignTo(w), TRUE)
              => IF w \in StatementWords THEN r.out.k = "exc" /\ r.out.fatal
                 ELSE /\ r.out.k = "ok"
                      /\ r.out.toks = <<Grp(<<Grp(<<Tok(Text(w)), Tok("="), Tok("1")>>)>>)>>

\* the parse of "int while;" has ended with the variable while
C27_Witness ==
    \E r \in Returned :
        /\ r.call = ToDo("program", <<"i","n","t"," ","w","h","i","l","e",";">>, TRUE)
        /\ r.out.k = "ok"
        /\ r.out.toks = <<Grp(<<Grp(<<Tok("int")>>), Tok("while")>>)>>


(***************************************************************************)
(* Signs before digits: in an expression and in the size of an array       *)
(***************************************************************************)
DigitStrings == {<<"1">>, <<"5">>, <<"1","2">>}

Minus(d)   == Grp(<<Tok("-"), Tok(Text(d))>>)
PlusLit(d) == Tok(Text(<<"+">> \o d))

\* the expressions with a sign before the digits d, and their tokens
SignedForms(d) ==
    {Branch(<<"-">> \o d, <<Minus(d)>>),
     Branch(<<"-"," ">> \o d, <<Minus(d)>>),
     Branch(<<"n","-">> \o d, <<Grp(<<Tok("n"), Tok("-"), Tok(Text(d))>>)>>),
     Branch(<<"n"," ","-">> \o d, <<Grp(<<Tok("n"), Tok("-"), Tok(Text(d))>>)>>),
     Branch(<<"a"," ","-"," ","-">> \o d, <<Grp(<<Tok("a"), Tok("-"), Minus(d)>>)>>),
     Branch(<<"2","*","-">> \o d, <<Grp(<<Tok("2"), Tok("*"), Minus(d)>>)>>),
     Branch(<<"x"," ","="," ","-">> \o d, <<Grp(<<Tok("x"), Tok("="), Minus(d)>>)>>),
     Branch(<<"(","-">> \o d \o <<")">>, <<Minus(d)>>),
     Branch(<<"a","[","-">> \o d \o <<"]">>, <<Tok("a"), Minus(d)>>),
     Branch(<<"f","(","-">> \o d \o <<")">>, <<Grp(<<Tok("f"), Grp(<<Minus(d)>>)>>)>>),
     Branch(<<"-">> \o d \o <<"+","2">>, <<Grp(<<Minus(d), Tok("+"), Tok("2")>>)>>),
     Branch(<<"+">> \o d, <<PlusLit(d)>>),
     Branch(<<"a"," ","+"," ","+">> \o d, <<Grp(<<Tok("a"), Tok("+"), PlusLit(d)>>)>>),
     Branch(<<"2","-","+">> \o d, <<Grp(<<Tok("2"), Tok("-"), PlusLit(d)>>)>>),
     Branch(<<"-","+">> \o d, <<Grp(<<Tok("-"), PlusLit(d)>>)>>),
     Branch(<<"f","(","+">> \o d \o <<")">>, <<Grp(<<Tok("f"), Grp(<<PlusLit(d)>>)>>)>>)}

\* + d with a blank, and +-d: no expression
NotSigned(d) == {<<"+"," ">> \o d, <<"+","-">> \o d}

\* int a[s d];
ArrayOf(s, d) == <<"i","n","t"," ","a","[">> \o s \o d \o <<"]",";">>

SignedInputs ==
    {ToDo("expr", g.text, TRUE) : g \in UNION {SignedForms(d) : d \in DigitStrings}}
    \cup {ToDo("stmt", g.text \o Semi, TRUE) : g \in UNION {SignedForms(d) : d \in DigitStrings}}
    \cup {ToDo("expr", text, TRUE) : text \in UNION {NotSigned(d) : d \in DigitStrings}}
    \cup {ToDo("program", ArrayOf(s, d), TRUE) :
              s \in {<<>>, <<"-">>, <<"+">>, <<"-"," ">>}, d \in DigitStrings}

InitSigned == InitWith(SignedInputs)

SpecSigned == InitSigned /\ [][Next]_vars

(***************************************************************************)
(* C28: in a parse with the expression rule or the statement rule, the     *)
(* integer literal never matches at a "-": "-" before digits is the prefix *)
(* operator on the unsigned literal ("-1" gives [[-, 1]]) or the binary    *)
(* operator ("n-1" gives [[n, -, 1]]), also after an operator, between     *)
(* parentheses, in a subscript and in an argument.  "+" and the digits are *)
(* one literal where an operand is expected ("+1" gives [+1]).  The size   *)
(* of an array is a literal with either sign or none: "int a[-5];" gives   *)
(* [[[int], a, -5]].                                                       *)
(***************************************************************************)
C28_MinusIsOperator ==
    /\ \A t \in DOMAIN threads :
          threads[t].cur.rule \in {"expr", "stmt"} =>
              \A i \in DOMAIN trace[t] :
                  LET ev == trace[t][i]
                  IN  (ev.id = "integer" /\ ev.what \in {"set", "hit"} /\ ev.val.k = "ok")
                          => At(threads[t].instring,
                                SkipWhitespace(threads[t].instring, ev.loc)) # "-"
    /\ \A r \in Returned, d \in DigitStrings :
          /\ \A g \in SignedForms(d) :
                /\ r.call = ToDo("expr", g.text, TRUE) => r.out = Ok(Len(g.text), g.toks)
                /\ r.call = ToDo("stmt", g.text \o Semi, TRUE)
                      => r.out.k = "ok" /\ r.out.toks = <<Grp(g.toks)>>
          /\ \A text \in NotSigned(d) :
                r.call = ToDo("expr", text, TRUE) => r.out.k = "exc"
          /\ \A s \in {<<>>, <<"-">>, <<"+">>} :
                r.call = ToDo("program", ArrayOf(s, d), TRUE)
                   => /\ r.out.k = "ok"
                      /\ r.out.toks = <<Grp(<<Grp(<<Tok("int")>>), Tok("a"),
                                              Tok(Text(s \o d))>>)>>
          /\ r.call = ToDo("program", ArrayOf(<<"-"," ">>, d), TRUE) => r.out.k = "exc"

\* the parse of the expression "-1" has ended with the operator and the literal
C28_Witness ==
    \E r \in Returned :
        r.call = ToDo("expr", <<"-","1">>, TRUE) /\ r.out = Ok(2, <<Minus(<<"1">>)>>)


(***************************************************************************)
(* The operands of the prefix operators: "! - *" of the first level and    *)
(* "++ --" of the second                                                   *)
(***************************************************************************)
IncOps == {<<"+","+">>, <<"-","-">>}

Unary(u, toks) == Grp(<<Tok(u)>> \o toks)
Inc(p, toks)   == Grp(<<Tok(Text(p))>> \o toks)
X == <<Tok("x")>>

\* p ux,  u px,  u(px),  p u vx,  p qx
IncOfUnary(p, u)     == p \o Sp \o <<u, "x">>
UnaryOfInc(u, p)     == <<u>> \o Sp \o p \o <<"x">>
UnaryOfParen(u, p)   == <<u, "(">> \o p \o <<"x", ")">>
IncOfTwo(p, u, v)    == p \o Sp \o <<u>> \o Sp \o <<v, "x">>
IncOfInc(p, q)       == p \o Sp \o q \o <<"x">>
PlusOne(text)        == text \o <<" ","+"," ","1">>

\* the primaries as operands of u: a name, a literal, a call, and an
\* expression between parentheses
PrimaryOperands ==
    {Branch(<<"x">>, X),
     Branch(<<"1">>, <<Tok("1")>>),
     Branch(<<"f","(","1",")">>, <<Grp(<<Tok("f"), Grp(<<Tok("1")>>)>>)>>),
     Branch(<<"(","a"," ","+"," ","b",")">>, <<Grp(<<Tok("a"), Tok("+"), Tok("b")>>)>>)}

\* u a * b
UnaryTimes(u) == <<u, "a", " ", "*", " ", "b">>

PrefixInputs ==
    {ToDo("expr", IncOfUnary(p, u), TRUE) : p \in IncOps, u \in UnaryOps}
    \cup {ToDo("expr", UnaryOfInc(u, p), all) : u \in UnaryOps, p \in IncOps, all \in BOOLEAN}
    \cup {ToDo("stmt", UnaryOfInc(u, p) \o Semi, TRUE) : u \in UnaryOps, p \in IncOps}
    \cup {ToDo("expr", UnaryOfParen(u, p), TRUE) : u \in UnaryOps, p \in IncOps}
    \cup {ToDo("expr", IncOfTwo(p, u, v), TRUE) : p \in IncOps, u, v \in UnaryOps}
    \cup {ToDo("expr", IncOfInc(p, q), TRUE) : p, q \in IncOps}
    \cup {ToDo("expr", PlusOne(IncOfUnary(p, u)), TRUE) : p \in IncOps, u \in UnaryOps}
    \cup {ToDo("expr", PlusOne(UnaryOfInc(u, p)), TRUE) : u \in UnaryOps, p \in IncOps}
    \cup {ToDo("expr", <<u>> \o g.text, TRUE) : u \in UnaryOps, g \in PrimaryOperands}
    \cup {ToDo("expr", UnaryTimes(u), TRUE) : u \in UnaryOps}

InitPrefix == InitWith(PrefixInputs)

SpecPrefix == InitPrefix /\ [][Next]_vars

(***************************************************************************)
(* C29: the operand of "!", "-" or "*" is an expression of their own       *)
(* level: a primary (name, literal, call, parenthesized expression) or a   *)
(* further "! - *" application, never a looser one ("u a * b" is the       *)
(* product of "u a" and b).  The operand of prefix "++" or "--" may be a   *)
(* "! - *" application: "++ -x" gives [[++, [-, x]]].  "u ++x" is no       *)
(* expression, alone, in a statement or before " + 1", and "u(++x)" gives  *)
(* [[u, [++, x]]]; in "u --x" the operand of u is the first-level          *)
(* expression "- -x", not a decrement.  A further prefix "++" or "--" is   *)
(* an operand of "++" and "--" too: "p qx" gives [[p, [q, x]]].            *)
(***************************************************************************)
C29_PrefixOperands ==
    \A r \in Returned, u \in UnaryOps :
        /\ \A p \in IncOps :
              /\ r.call = ToDo("expr", IncOfUnary(p, u), TRUE)
                    => r.out.k = "ok" /\ r.out.toks = <<Inc(p, <<Unary(u, X)>>)>>
              /\ r.call = ToDo("expr", PlusOne(IncOfUnary(p, u)), TRUE)
                    => /\ r.out.k = "ok"
                       /\ r.out.toks = <<Grp(<<Inc(p, <<Unary(u, X)>>), Tok("+"), Tok("1")>>)>>
              /\ r.call = ToDo("expr", UnaryOfParen(u, p), TRUE)
                    => r.out.k = "ok" /\ r.out.toks = <<Unary(u, <<Inc(p, X)>>)>>
              /\ \A v \in UnaryOps :
                    r.call = ToDo("expr", IncOfTwo(p, u, v), TRUE)
                       => /\ r.out.k = "ok"
                          /\ r.out.toks = <<Inc(p, <<Unary(u, <<Unary(v, X)>>)>>)>>
              /\ \A q \in IncOps :
                    r.call = ToDo("expr", IncOfInc(p, q), TRUE)
                       => r.out.k = "ok" /\ r.out.toks = <<Inc(p, <<Inc(q, X)>>)>>
        /\ \A all \in BOOLEAN :
              /\ r.call = ToDo("expr", UnaryOfInc(u, <<"+","+">>), all) => r.out.k = "exc"
              /\ r.call = ToDo("expr", UnaryOfInc(u, <<"-","-">>), all)
                    => /\ r.out.k = "ok"
                       /\ r.out.toks = <<Unary(u, <<Unary("-", <<Unary("-", X)>>)>>)>>
        /\ r.call = ToDo("stmt", UnaryOfInc(u, <<"+","+">>) \o Semi, TRUE) => r.out.k = "exc"
        /\ r.call = ToDo("expr", PlusOne(UnaryOfInc(u, <<"+","+">>)), TRUE) => r.out.k = "exc"
        /\ \A g \in PrimaryOperands :
              r.call = ToDo("expr", <<u>> \o g.text, TRUE)
                 => r.out.k = "ok" /\ r.out.toks = <<Unary(u, g.toks)>>
        /\ r.call = ToDo("expr", UnaryTimes(u), TRUE)
              => /\ r.out.k = "ok"
                 /\ r.out.toks = <<Grp(<<Unary(u, <<Tok("a")>>), Tok("*"), Tok("b")>>)>>

\* the parse of "- ++x" has ended with an exception
C29_Witness ==
    \E r \in Returned :
        r.call = ToDo("expr", <<"-"," ","+","+","x">>, TRUE) /\ r.out.k = "exc"

====
